---------------------------- MODULE Spec2Model ----------------------------
(***************************************************************************)
(* A model of the AI-Roulette backend (karved/Ai-Roulette).                *)
(*                                                                         *)
(* Spec   : the HTTP handlers of backend/main.py (/game/place-bet,         *)
(*          /game/spin, /game/reset-phase) running as concurrent requests  *)
(*          of one player over the storage tables players, bets and        *)
(*          game_rounds.  Every storage call of a handler is one atomic    *)
(*          step; the code between two storage calls belongs to the step   *)
(*          of the call that follows it.                                   *)
(* SpecSolo : the same handlers, one request of /game/place-bet or         *)
(*          /game/spin at a time, over well-formed and malformed request   *)
(*          bodies.                                                        *)
(* SpecPair : two concurrent requests of /game/spin whose bodies may carry  *)
(*          a description of the outcome next to the winning number.       *)
(* SpecOdds : one request of /game/place-bet or /game/spin carrying one     *)
(*          wager of each of the thirteen categories.                      *)
(* SpecStats : /game/place-bet, /game/spin and /player/stats as two        *)
(*          concurrent requests.                                           *)
(* SpecOutcome : one drawn number classified by /game/spin,                *)
(*          /game/get-winning-number, GameEngine and RouletteEngine.       *)
(* SpecShape : one split, street, corner or line wager judged by the       *)
(*          validators of GameEngine, RouletteEngine and BackupBetParser   *)
(*          (services/ai_service.py).                                      *)
(* SpecDb : the methods of services/database.py (DatabaseService) called   *)
(*          in any order on the same tables.                               *)
(* SpecGrade : one wager and one winning number graded and paid by the     *)
(*          three graders of the code: the first pass of /game/spin,       *)
(*          GameEngine (services/game_engine.py) and RouletteEngine        *)
(*          (services/roulette_engine.py).                                 *)
(* SpecLedger : /game/spin and /player/stats, each request sent after the  *)
(*          answer to the one before.                                      *)
(* SpecDbWrites : update_balances, save_bet and save_spin_result of        *)
(*          DatabaseService, each write succeeding or raising, and how the *)
(*          call returns.                                                  *)
(* SpecEngine : place_bet, spin and calculate_payouts called in any order  *)
(*          on one RouletteEngine.                                         *)
(* SpecManager : connect, disconnect, send_personal_message and broadcast  *)
(*          on the WebSocketManager (utils/websocket_manager.py), a        *)
(*          coroutine running from one await to the next.                  *)
(*                                                                         *)
(* Money is integral (whole dollars); a win-rate is kept in hundredths of a *)
(* percent, as round(x, 2) leaves it; a nullable column or an optional     *)
(* request field is Null or Some(v).                                       *)
(*                                                                         *)
(* Storage is what the calls in the source show: single-row reads, updates *)
(* and inserts, each atomic, and no constraint between rows (the source    *)
(* declares none and handles no conflict).  An insert into bets either     *)
(* succeeds or raises; every other storage call succeeds.  A select with   *)
(* limit(1) and no order returns any matching row.                         *)
(***************************************************************************)
EXTENDS Integers, Sequences, FiniteSets, TLC

VARIABLES
    players,        \* the player's row of table "players"
    bets,           \* table "bets", in insertion order
    game_rounds,    \* table "game_rounds", in insertion order; a round's id is its index
    req,            \* the in-flight HTTP requests: handler position and locals
    supabase,       \* DatabaseService.supabase: TRUE when a client was created
    grading,        \* one wager and one winning number, and what each grader made of them
    db,             \* table "payouts", and how the last DatabaseService call returned
    engine,         \* the RouletteEngine instance and the calls made on it
    manager         \* the WebSocketManager instance and the broadcast in flight

vars == <<players, bets, game_rounds, req, supabase, grading, db, engine, manager>>

---------------------------------------------------------------------------
(* Bounds of the model *)

\* number of HTTP requests that may overlap
NumRequests == 2
\* largest number of wagers in one /game/spin batch
MaxBatch == 2
\* number of rounds in the table the DatabaseService methods are called on
DbRounds == 2

Requests == 1..NumRequests

(* Program constants *)

\* main.py: "if amount > 1000"
MaxBetAmount == 1000
\* auth_service.py: a new player record starts with balance 100.0
InitialBalance == 100

Null == <<>>
Some(v) == <<v>>

---------------------------------------------------------------------------
(* Pure helpers *)

RECURSIVE SumSeq(_)
SumSeq(s) == IF s = <<>> THEN 0 ELSE Head(s) + SumSeq(Tail(s))

\* python: x in list
InList(x, list) == \E k \in DOMAIN list : list[k] = x

---------------------------------------------------------------------------
(* The wheel outcome as /game/spin derives it from the winning number *)

red_numbers == {1,3,5,7,9,12,14,16,18,19,21,23,25,27,30,32,34,36}

spin_color(winning_number) ==
    IF winning_number = 0 THEN "green"
    ELSE IF winning_number \in red_numbers THEN "red"
    ELSE "black"

spin_is_even(winning_number) == winning_number % 2 = 0 /\ winning_number # 0

\* spin_is_low without its lower end: zero counts as low
spin_is_low_UpTo18(winning_number) == winning_number <= 18

spin_is_low(winning_number) == 1 <= winning_number /\ winning_number <= 18

spin_dozen(winning_number) ==
    IF winning_number > 0 THEN (winning_number - 1) \div 12 + 1 ELSE 0

\* spin_column as the bare remainder: the third column comes out as 0
spin_column_Remainder(winning_number) == winning_number % 3

spin_column(winning_number) ==
    IF winning_number % 3 # 0 THEN winning_number % 3
    ELSE IF winning_number > 0 THEN 3 ELSE 0

---------------------------------------------------------------------------
(* Odds and grading of /game/spin *)

valid_bet_types ==
    {"straight", "split", "street", "corner", "line", "dozen", "column",
     "red", "black", "even", "odd", "low", "high"}

payout_multipliers ==
    [bt \in valid_bet_types |->
        CASE bt = "straight" -> 35
          [] bt = "split"    -> 17
          [] bt = "street"   -> 11
          [] bt = "corner"   -> 8
          [] bt = "line"     -> 5
          [] bt \in {"dozen", "column"} -> 2
          [] OTHER -> 1]

\* get_payout_odds giving the total return per unit staked, stake included
get_payout_odds_TotalReturn(bet_type) ==
    IF bet_type \in valid_bet_types THEN payout_multipliers[bet_type] + 1 ELSE 2

\* payout_multipliers.get(bet_type, 1)
get_payout_odds(bet_type) ==
    IF bet_type \in valid_bet_types THEN payout_multipliers[bet_type] ELSE 1

\* spin_is_winner with a final else branch that sets is_winner for any other type
spin_is_winner_UnknownWins(bet_type, bet_numbers, winning_number) ==
    CASE bet_type \in {"straight", "split", "street", "corner", "line"} ->
            InList(winning_number, bet_numbers)
      [] bet_type = "dozen"  -> InList(spin_dozen(winning_number), bet_numbers)
      [] bet_type = "column" -> InList(spin_column(winning_number), bet_numbers)
      [] bet_type = "red"    -> spin_color(winning_number) = "red"
      [] bet_type = "black"  -> spin_color(winning_number) = "black"
      [] bet_type = "even"   -> spin_is_even(winning_number)
      [] bet_type = "odd"    -> ~spin_is_even(winning_number) /\ winning_number # 0
      [] bet_type = "low"    -> spin_is_low(winning_number)
      [] bet_type = "high"   -> ~spin_is_low(winning_number) /\ winning_number # 0
      [] OTHER -> TRUE

\* the if/elif chain of spin_wheel; is_winner stays False for any other type
spin_is_winner(bet_type, bet_numbers, winning_number) ==
    CASE bet_type \in {"straight", "split", "street", "corner", "line"} ->
            InList(winning_number, bet_numbers)
      [] bet_type = "dozen"  -> InList(spin_dozen(winning_number), bet_numbers)
      [] bet_type = "column" -> InList(spin_column(winning_number), bet_numbers)
      [] bet_type = "red"    -> spin_color(winning_number) = "red"
      [] bet_type = "black"  -> spin_color(winning_number) = "black"
      [] bet_type = "even"   -> spin_is_even(winning_number)
      [] bet_type = "odd"    -> ~spin_is_even(winning_number) /\ winning_number # 0
      [] bet_type = "low"    -> spin_is_low(winning_number)
      [] bet_type = "high"   -> ~spin_is_low(winning_number) /\ winning_number # 0
      [] OTHER -> FALSE

\* persist_is_winner taking every outcome that is not black for red
persist_is_winner_GreenIsRed(bet_type, bet_numbers, winning_number, color, is_even, is_low, dozen, column) ==
    CASE bet_type \in {"straight", "split", "street", "corner", "line"} ->
            InList(winning_number, bet_numbers)
      [] bet_type = "dozen"  -> InList(dozen, bet_numbers)
      [] bet_type = "column" -> InList(column, bet_numbers)
      [] bet_type = "red"    -> color # "black"
      [] bet_type = "black"  -> color = "black"
      [] bet_type = "even"   -> is_even
      [] bet_type = "odd"    -> ~is_even /\ winning_number # 0
      [] bet_type = "low"    -> is_low
      [] bet_type = "high"   -> ~is_low /\ winning_number # 0
      [] OTHER -> FALSE

\* the if/elif chain of the second pass of spin_wheel, which grades each wager
\* again from the handler's locals before it stores the wager
persist_is_winner(bet_type, bet_numbers, winning_number, color, is_even, is_low, dozen, column) ==
    CASE bet_type = "straight" -> InList(winning_number, bet_numbers)
      [] bet_type = "split"    -> InList(winning_number, bet_numbers)
      [] bet_type = "street"   -> InList(winning_number, bet_numbers)
      [] bet_type = "corner"   -> InList(winning_number, bet_numbers)
      [] bet_type = "line"     -> InList(winning_number, bet_numbers)
      [] bet_type = "dozen"    -> InList(dozen, bet_numbers)
      [] bet_type = "column"   -> InList(column, bet_numbers)
      [] bet_type = "red"      -> color = "red"
      [] bet_type = "black"    -> color = "black"
      [] bet_type = "even"     -> is_even
      [] bet_type = "odd"      -> ~is_even /\ winning_number # 0
      [] bet_type = "low"      -> is_low
      [] bet_type = "high"     -> ~is_low /\ winning_number # 0
      [] OTHER -> FALSE

\* spin_payout paying the winnings without the stake
spin_payout_WinningsOnly(bet) == bet.amount * get_payout_odds(bet.betType)

\* actual_payout of the first pass: bet_amount + potential_winnings
spin_payout(bet) == bet.amount + bet.amount * get_payout_odds(bet.betType)

\* total_wagered of the first pass
RECURSIVE spin_total_wagered(_)
spin_total_wagered(frontend_bets) ==
    IF frontend_bets = <<>> THEN 0
    ELSE Head(frontend_bets).amount + spin_total_wagered(Tail(frontend_bets))

\* the list "payouts" of the first pass: one amount per winning bet, in order
RECURSIVE spin_payouts(_, _)
spin_payouts(frontend_bets, winning_number) ==
    IF frontend_bets = <<>> THEN <<>>
    ELSE LET bet == Head(frontend_bets)
             rest == spin_payouts(Tail(frontend_bets), winning_number)
         IN  IF spin_is_winner(bet.betType, bet.numbers, winning_number)
             THEN <<spin_payout(bet)>> \o rest
             ELSE rest

---------------------------------------------------------------------------
(* The services as constructed *)

\* DatabaseService: table "payouts" is empty and no call was made
FreshDb == [payouts |-> <<>>, call |-> Null]

\* RouletteEngine.__init__: no bets, the first round id (uuid4 values are
\* numbered in the order they are generated); no call was made: calls counts
\* the calls, spin_result is the SpinResult the caller holds, graded the bets
\* calculate_payouts has graded
FreshEngine ==
    [current_bets |-> <<>>, current_round_id |-> 1, calls |-> 0,
     spin_result |-> Null, graded |-> <<>>]

\* WebSocketManager.__init__: active_connections is a list of WebSockets
\* (numbered in the order they are accepted), client_connections a dict from
\* client_id to WebSocket, player_sessions a dict of which the keys are kept,
\* game_rooms a dict of lists of client_id.  accepted counts the WebSockets
\* accepted so far, personal lists the calls of send_personal_message that are
\* suspended on their send, broadcast is the call of broadcast in flight or the
\* last one that returned, broadcasts counts the calls of broadcast
FreshManager ==
    [active_connections |-> <<>>, client_connections |-> <<>>,
     player_sessions |-> {}, game_rooms |-> [default |-> <<>>],
     accepted |-> 0, personal |-> <<>>, broadcast |-> Null, broadcasts |-> 0]

---------------------------------------------------------------------------
(* Storage queries shared by the handlers *)

\* select id from game_rounds where phase = 'betting'
BettingRoundIds == {id \in DOMAIN game_rounds : game_rounds[id].phase = "betting"}

\* select round_number order by round_number desc limit 1, plus one; 1 on an empty table
NextRoundNumber ==
    IF game_rounds = <<>> THEN 1
    ELSE LET n == CHOOSE m \in {game_rounds[id].round_number : id \in DOMAIN game_rounds} :
                    \A id \in DOMAIN game_rounds : game_rounds[id].round_number <= m
         IN  n + 1

\* insert {"phase": "betting", "round_number": n}
NewRound(n) ==
    [round_number |-> n, phase |-> "betting", winning_number |-> Null, color |-> Null,
     is_even |-> Null, is_low |-> Null, dozen |-> Null, roulette_column |-> Null]

\* every row of table "bets", graded or not
ProcessedBets_AllRows(rows) == rows

\* select ... from bets where is_winner is not null
ProcessedBets(rows) == SelectSeq(rows, LAMBDA b : b.is_winner # Null)

\* sum(1 for bet in rows if bet["is_winner"])
WinningBetsCount(rows) == Len(SelectSeq(rows, LAMBDA b : b.is_winner = Some(TRUE)))

\* round(x, 2) of x = num / den * 100, in hundredths: the nearest hundredth,
\* the even one of two equally near
RoundHundredths(num, den) ==
    LET q == (num * 10000) \div den
        rem == (num * 10000) % den
    IN  IF 2 * rem > den THEN q + 1
        ELSE IF 2 * rem < den THEN q
        ELSE IF q % 2 = 0 THEN q ELSE q + 1

\* round((winning / total * 100) if total > 0 else 0, 2), in hundredths of a
\* percent
round_win_rate(winning, total) ==
    IF total > 0 THEN RoundHundredths(winning, total) ELSE 0

ZeroStats == [balance |-> 0, total_winnings |-> 0, total_wagered |-> 0, games_played |-> 0]

IdleRequest ==
    [pc |-> "idle", kind |-> "none", status |-> 0,
     current_user_balance |-> 0, round_id |-> 0, next_round_number |-> 0,
     new_balance |-> 0,
     bet_type |-> "", amount |-> 0, numbers |-> <<>>, latest_balance |-> 0,
     initial_balance |-> 0, frontend_bets |-> <<>>, winning_number |-> 0,
     request_attributes |-> Null,
     color |-> "", is_even |-> FALSE, is_low |-> FALSE, dozen |-> 0, column |-> 0,
     total_wagered |-> 0, total_won |-> 0, winning_bets |-> 0, payouts |-> <<>>,
     net_result |-> 0, current_stats |-> ZeroStats, bet_index |-> 0,
     payout_index |-> 0, total_processed_bets |-> 0, total_winning_bets |-> 0,
     win_rate |-> 0, latest_games_played |-> 0, stats |-> Null]

\* requests are interchangeable: request r starts only after request r-1 has
Startable(r) ==
    /\ req[r].pc = "idle"
    /\ IF r = 1 THEN TRUE ELSE req[r - 1].pc # "idle"

Set(r, fields) == req' = [req EXCEPT ![r] = fields @@ @]

---------------------------------------------------------------------------
(* Inputs *)

\* request bodies of /game/place-bet: bet_type ("" when missing), amount, numbers
PlaceBetInputs ==
    { [bet_type |-> "red",      amount |-> 10,   numbers |-> <<>>],
      [bet_type |-> "straight", amount |-> 60,   numbers |-> <<7>>],
      [bet_type |-> "red",      amount |-> 0,    numbers |-> <<>>],
      [bet_type |-> "red",      amount |-> 1001, numbers |-> <<>>],
      [bet_type |-> "joker",    amount |-> 10,   numbers |-> <<>>],
      [bet_type |-> "",         amount |-> 10,   numbers |-> <<>>] }

\* wagers a /game/spin batch is made of
SpinBets ==
    { [betType |-> "red",      amount |-> 10, numbers |-> <<>>],
      [betType |-> "straight", amount |-> 60, numbers |-> <<7>>] }

SpinBatches == UNION {[1..n -> SpinBets] : n \in 0..MaxBatch}

\* the "balance" field of a /game/spin request: absent, or what the client says
ClientBalances == {Null, Some(150)}

\* winning numbers a spin is settled with (0 green, 7 red): drawn by
\* random.randint(0, 36) or sent by the client as winning_number
WinningNumbers == {0, 7}

---------------------------------------------------------------------------
(* POST /game/place-bet *)

\* the input validation of place_bet, against current_user.balance
place_bet_rejects(bet_type, amount, balance) ==
    \/ bet_type = ""
    \/ amount <= 0
    \/ amount > MaxBetAmount
    \/ balance < amount
    \/ bet_type \notin valid_bet_types

\* the request body in arrives: get_current_user_and_token reads the player
\* row; then the input validation
PlaceBetReceive(r, in) ==
    LET rejected == place_bet_rejects(in.bet_type, in.amount, players.balance)
    IN  Set(r, [pc |-> IF rejected THEN "done" ELSE "pb_find_round",
                kind |-> "place_bet",
                status |-> IF rejected THEN 400 ELSE 0,
                current_user_balance |-> players.balance,
                bet_type |-> in.bet_type, amount |-> in.amount,
                numbers |-> in.numbers])

PlaceBetStart(r) ==
    /\ Startable(r)
    /\ \E in \in PlaceBetInputs : PlaceBetReceive(r, in)
    /\ UNCHANGED <<players, bets, game_rounds, supabase, grading, db, engine, manager>>

\* select id from game_rounds where phase = 'betting' limit 1
PlaceBetFindRound(r) ==
    /\ req[r].pc = "pb_find_round"
    /\ \/ \E id \in BettingRoundIds :
            Set(r, [pc |-> "pb_read_balance", round_id |-> id])
       \/ /\ BettingRoundIds = {}
          /\ Set(r, [pc |-> "pb_max_round"])
    /\ UNCHANGED <<players, bets, game_rounds, supabase, grading, db, engine, manager>>

PlaceBetMaxRound(r) ==
    /\ req[r].pc = "pb_max_round"
    /\ Set(r, [pc |-> "pb_insert_round", next_round_number |-> NextRoundNumber])
    /\ UNCHANGED <<players, bets, game_rounds, supabase, grading, db, engine, manager>>

PlaceBetInsertRound(r) ==
    /\ req[r].pc = "pb_insert_round"
    /\ game_rounds' = Append(game_rounds, NewRound(req[r].next_round_number))
    /\ Set(r, [pc |-> "pb_read_balance", round_id |-> Len(game_rounds) + 1])
    /\ UNCHANGED <<players, bets, supabase, grading, db, engine, manager>>

\* re-fetch the balance, check it, compute new_balance
PlaceBetReadBalance(r) ==
    /\ req[r].pc = "pb_read_balance"
    /\ LET latest_balance == players.balance
       IN  IF latest_balance < req[r].amount
           THEN Set(r, [pc |-> "done", status |-> 400, latest_balance |-> latest_balance])
           ELSE Set(r, [pc |-> "pb_deduct", latest_balance |-> latest_balance,
                        new_balance |-> latest_balance - req[r].amount])
    /\ UNCHANGED <<players, bets, game_rounds, supabase, grading, db, engine, manager>>

\* update players set balance = new_balance
PlaceBetDeduct(r) ==
    /\ req[r].pc = "pb_deduct"
    /\ players' = [players EXCEPT !.balance = req[r].new_balance]
    /\ Set(r, [pc |-> "pb_insert_bet"])
    /\ UNCHANGED <<bets, game_rounds, supabase, grading, db, engine, manager>>

\* the row place_bet inserts: ungraded
PlacedBet(r) ==
    [round_id |-> req[r].round_id, bet_type |-> req[r].bet_type,
     numbers |-> req[r].numbers, amount |-> req[r].amount,
     potential_payout |-> req[r].amount * get_payout_odds(req[r].bet_type),
     payout_odds |-> get_payout_odds(req[r].bet_type),
     is_winner |-> Null, actual_payout |-> Null]

\* insert into bets: the insert succeeds, or raises
PlaceBetInsertBet(r) ==
    /\ req[r].pc = "pb_insert_bet"
    /\ \/ /\ bets' = Append(bets, PlacedBet(r))
          /\ Set(r, [pc |-> "done", status |-> 200])
       \/ /\ bets' = bets
          /\ Set(r, [pc |-> "pb_rollback"])
    /\ UNCHANGED <<players, game_rounds, supabase, grading, db, engine, manager>>

\* PlaceBetRollback with the compensating write putting back the deducted balance
PlaceBetRollback_WritesNewBalance(r) ==
    /\ req[r].pc = "pb_rollback"
    /\ players' = [players EXCEPT !.balance = req[r].new_balance]
    /\ Set(r, [pc |-> "done", status |-> 500])
    /\ UNCHANGED <<bets, game_rounds, supabase, grading, db, engine, manager>>

\* the except branch: write latest_balance back, answer 500
PlaceBetRollback(r) ==
    /\ req[r].pc = "pb_rollback"
    /\ players' = [players EXCEPT !.balance = req[r].latest_balance]
    /\ Set(r, [pc |-> "done", status |-> 500])
    /\ UNCHANGED <<bets, game_rounds, supabase, grading, db, engine, manager>>

---------------------------------------------------------------------------
(* POST /game/spin *)

\* the locals of spin_wheel up to its first storage call: the request fields
\* balance, bets and winning_number (no other field of the body is read), the
\* outcome derived from the winning number, the first grading pass, net_result
\* and new_balance
SpinLocals(balance, frontend_bets, winning_number) ==
    LET initial_balance == IF balance = Null THEN players.balance ELSE balance[1]
        payouts == spin_payouts(frontend_bets, winning_number)
        total_wagered == spin_total_wagered(frontend_bets)
        total_won == SumSeq(payouts)
        net_result == total_won - total_wagered
    IN  [pc |-> "sp_read_stats", kind |-> "spin",
         current_user_balance |-> players.balance,
         initial_balance |-> initial_balance,
         frontend_bets |-> frontend_bets,
         winning_number |-> winning_number,
         color |-> spin_color(winning_number),
         is_even |-> spin_is_even(winning_number),
         is_low |-> spin_is_low(winning_number),
         dozen |-> spin_dozen(winning_number),
         column |-> spin_column(winning_number),
         total_wagered |-> total_wagered,
         total_won |-> total_won,
         winning_bets |-> Len(payouts),
         payouts |-> payouts,
         net_result |-> net_result,
         new_balance |-> initial_balance + net_result]

\* SpinReceive without the empty-batch check: an empty batch is settled too
SpinReceive_NoEmptyCheck(r, balance, frontend_bets, winning_number, attributes) ==
    Set(r, [request_attributes |-> attributes]
           @@ SpinLocals(balance, frontend_bets, winning_number))

\* SpinReceive taking the color of the outcome from the request body when the
\* body has one
SpinReceive_TrustsClientColor(r, balance, frontend_bets, winning_number, attributes) ==
    IF frontend_bets = <<>>
    THEN Set(r, [pc |-> "done", kind |-> "spin", status |-> 400,
                 current_user_balance |-> players.balance,
                 request_attributes |-> attributes])
    ELSE Set(r, [request_attributes |-> attributes,
                 color |-> IF attributes # Null THEN attributes[1].color
                           ELSE spin_color(winning_number)]
                @@ SpinLocals(balance, frontend_bets, winning_number))

\* a request arrives: get_current_user_and_token reads the player row; the
\* empty-batch check; then the locals.  attributes is what else the body
\* carries (color, is_even, is_low, dozen, column), kept with the request
SpinReceive(r, balance, frontend_bets, winning_number, attributes) ==
    IF frontend_bets = <<>>
    THEN Set(r, [pc |-> "done", kind |-> "spin", status |-> 400,
                 current_user_balance |-> players.balance,
                 request_attributes |-> attributes])
    ELSE Set(r, [request_attributes |-> attributes]
                @@ SpinLocals(balance, frontend_bets, winning_number))

SpinStart(r) ==
    /\ Startable(r)
    /\ \E balance \in ClientBalances, frontend_bets \in SpinBatches,
          winning_number \in WinningNumbers :
         SpinReceive(r, balance, frontend_bets, winning_number, Null)
    /\ UNCHANGED <<players, bets, game_rounds, supabase, grading, db, engine, manager>>

\* re-fetch balance, total_winnings, games_played, total_wagered
SpinReadStats(r) ==
    /\ req[r].pc = "sp_read_stats"
    /\ Set(r, [pc |-> "sp_update", current_stats |-> players])
    /\ UNCHANGED <<players, bets, game_rounds, supabase, grading, db, engine, manager>>

\* SpinUpdatePlayer adding the gross total_won to total_winnings
SpinUpdatePlayer_GrossWinnings(r) ==
    /\ req[r].pc = "sp_update"
    /\ players' = [balance |-> req[r].new_balance,
                   total_winnings |-> req[r].current_stats.total_winnings + req[r].total_won,
                   total_wagered |-> req[r].current_stats.total_wagered + req[r].total_wagered,
                   games_played |-> req[r].current_stats.games_played + 1]
    /\ Set(r, [pc |-> "sp_find_round"])
    /\ UNCHANGED <<bets, game_rounds, supabase, grading, db, engine, manager>>

\* update players set balance, total_winnings, total_wagered, games_played
SpinUpdatePlayer(r) ==
    /\ req[r].pc = "sp_update"
    /\ players' = [balance |-> req[r].new_balance,
                   total_winnings |-> req[r].current_stats.total_winnings + req[r].net_result,
                   total_wagered |-> req[r].current_stats.total_wagered + req[r].total_wagered,
                   games_played |-> req[r].current_stats.games_played + 1]
    /\ Set(r, [pc |-> "sp_find_round"])
    /\ UNCHANGED <<bets, game_rounds, supabase, grading, db, engine, manager>>

\* select id from game_rounds where phase = 'betting' limit 1
SpinFindRound(r) ==
    /\ req[r].pc = "sp_find_round"
    /\ \/ \E id \in BettingRoundIds :
            Set(r, [pc |-> "sp_insert_bet", round_id |-> id, bet_index |-> 1])
       \/ /\ BettingRoundIds = {}
          /\ Set(r, [pc |-> "sp_max_round"])
    /\ UNCHANGED <<players, bets, game_rounds, supabase, grading, db, engine, manager>>

SpinMaxRound(r) ==
    /\ req[r].pc = "sp_max_round"
    /\ Set(r, [pc |-> "sp_insert_round", next_round_number |-> NextRoundNumber])
    /\ UNCHANGED <<players, bets, game_rounds, supabase, grading, db, engine, manager>>

SpinInsertRound(r) ==
    /\ req[r].pc = "sp_insert_round"
    /\ game_rounds' = Append(game_rounds, NewRound(req[r].next_round_number))
    /\ Set(r, [pc |-> "sp_insert_bet", round_id |-> Len(game_rounds) + 1, bet_index |-> 1])
    /\ UNCHANGED <<players, bets, supabase, grading, db, engine, manager>>

\* the row the second pass inserts for frontend_bets[bet_index]: graded again,
\* its payout taken from the first pass's list at payout_index
GradedBet(r) ==
    LET bet == req[r].frontend_bets[req[r].bet_index]
        odds_multiplier == get_payout_odds(bet.betType)
        potential_winnings == bet.amount * odds_multiplier
        is_winner == persist_is_winner(bet.betType, bet.numbers, req[r].winning_number,
                                       req[r].color, req[r].is_even, req[r].is_low,
                                       req[r].dozen, req[r].column)
        actual_payout ==
            IF ~is_winner THEN 0
            ELSE IF req[r].payout_index < Len(req[r].payouts)
                 THEN req[r].payouts[req[r].payout_index + 1]
                 ELSE bet.amount + potential_winnings
    IN  [round_id |-> req[r].round_id, bet_type |-> bet.betType,
         numbers |-> bet.numbers, amount |-> bet.amount,
         potential_payout |-> potential_winnings,
         payout_odds |-> odds_multiplier,
         is_winner |-> Some(is_winner), actual_payout |-> Some(actual_payout)]

\* one turn of the second loop: insert into bets; the insert succeeds, or raises
\* and the handler answers 500 from its outer except
SpinInsertBet(r) ==
    /\ req[r].pc = "sp_insert_bet"
    /\ \/ /\ bets' = Append(bets, GradedBet(r))
          /\ Set(r, [pc |-> IF req[r].bet_index = Len(req[r].frontend_bets)
                            THEN "sp_win_rate" ELSE "sp_insert_bet",
                     bet_index |-> req[r].bet_index + 1,
                     payout_index |-> IF GradedBet(r).is_winner = Some(TRUE)
                                      THEN req[r].payout_index + 1
                                      ELSE req[r].payout_index])
       \/ /\ bets' = bets
          /\ Set(r, [pc |-> "done", status |-> 500])
    /\ UNCHANGED <<players, game_rounds, supabase, grading, db, engine, manager>>

\* select is_winner from bets where is_winner is not null; answer 200
SpinWinRate(r) ==
    /\ req[r].pc = "sp_win_rate"
    /\ LET all_processed_bets == ProcessedBets(bets)
           total_processed_bets == Len(all_processed_bets)
           total_winning_bets == WinningBetsCount(all_processed_bets)
       IN  Set(r, [pc |-> "done", status |-> 200,
                   total_processed_bets |-> total_processed_bets,
                   total_winning_bets |-> total_winning_bets,
                   win_rate |-> round_win_rate(total_winning_bets, total_processed_bets)])
    /\ UNCHANGED <<players, bets, game_rounds, supabase, grading, db, engine, manager>>

---------------------------------------------------------------------------
(* POST /game/reset-phase *)

ResetPhaseStart(r) ==
    /\ Startable(r)
    /\ Set(r, [pc |-> "rp_max_round", kind |-> "reset_phase",
               current_user_balance |-> players.balance])
    /\ UNCHANGED <<players, bets, game_rounds, supabase, grading, db, engine, manager>>

ResetPhaseMaxRound(r) ==
    /\ req[r].pc = "rp_max_round"
    /\ Set(r, [pc |-> "rp_insert_round", next_round_number |-> NextRoundNumber])
    /\ UNCHANGED <<players, bets, game_rounds, supabase, grading, db, engine, manager>>

ResetPhaseInsertRound(r) ==
    /\ req[r].pc = "rp_insert_round"
    /\ game_rounds' = Append(game_rounds, NewRound(req[r].next_round_number))
    /\ Set(r, [pc |-> "done", status |-> 200, round_id |-> Len(game_rounds) + 1])
    /\ UNCHANGED <<players, bets, supabase, grading, db, engine, manager>>

---------------------------------------------------------------------------
Init ==
    /\ players = [ZeroStats EXCEPT !.balance = InitialBalance]
    /\ bets = <<>>
    /\ game_rounds = <<>>
    /\ req = [r \in Requests |-> IdleRequest]
    /\ db = FreshDb
    /\ engine = FreshEngine
    /\ manager = FreshManager
    /\ supabase = TRUE
    /\ grading = Null

Next ==
    \E r \in Requests :
        \/ PlaceBetStart(r)
        \/ PlaceBetFindRound(r)
        \/ PlaceBetMaxRound(r)
        \/ PlaceBetInsertRound(r)
        \/ PlaceBetReadBalance(r)
        \/ PlaceBetDeduct(r)
        \/ PlaceBetInsertBet(r)
        \/ PlaceBetRollback(r)
        \/ SpinStart(r)
        \/ SpinReadStats(r)
        \/ SpinUpdatePlayer(r)
        \/ SpinFindRound(r)
        \/ SpinMaxRound(r)
        \/ SpinInsertRound(r)
        \/ SpinInsertBet(r)
        \/ SpinWinRate(r)
        \/ ResetPhaseStart(r)
        \/ ResetPhaseMaxRound(r)
        \/ ResetPhaseInsertRound(r)

Spec == Init /\ [][Next]_vars

---------------------------------------------------------------------------
(* One request at a time, over the request bodies a client can send *)

\* request bodies of /game/place-bet, well-formed and not: a straight bet with
\* two numbers, a dozen bet on dozen 4, a red bet carrying a number
SoloPlaceBetInputs ==
    PlaceBetInputs \cup
    { [bet_type |-> "straight", amount |-> 10, numbers |-> <<7, 8>>],
      [bet_type |-> "dozen",    amount |-> 10, numbers |-> <<4>>],
      [bet_type |-> "red",      amount |-> 10, numbers |-> <<5>>] }

\* wagers of a /game/spin batch, well-formed and not
SoloSpinBets ==
    { [betType |-> "red",      amount |-> 10,   numbers |-> <<>>],
      [betType |-> "straight", amount |-> 5,    numbers |-> <<7>>],
      [betType |-> "straight", amount |-> 10,   numbers |-> <<7, 8>>],
      [betType |-> "red",      amount |-> -20,  numbers |-> <<>>],
      [betType |-> "red",      amount |-> 1001, numbers |-> <<>>],
      [betType |-> "joker",    amount |-> 10,   numbers |-> <<>>] }

SoloSpinBatches == UNION {[1..n -> SoloSpinBets] : n \in 0..MaxBatch}

\* the "winning_number" field of a /game/spin request: absent, or the client's
AnimationWinningNumbers == {Null, Some(7), Some(37)}

\* numbers random.randint(0, 36) returns (0 green, 7 red, 36 the largest)
DrawnNumbers == {0, 7, 36}

\* winning_number of spin_wheel: the client's when it sent one, else drawn
spin_winning_number(animation_winning_number, drawn) ==
    IF animation_winning_number # Null THEN animation_winning_number[1] ELSE drawn

SoloPlaceBetStart(r) ==
    /\ Startable(r)
    /\ \E in \in SoloPlaceBetInputs : PlaceBetReceive(r, in)
    /\ UNCHANGED <<players, bets, game_rounds, supabase, grading, db, engine, manager>>

SoloSpinStart(r) ==
    /\ Startable(r)
    /\ \E balance \in ClientBalances, frontend_bets \in SoloSpinBatches,
          animation_winning_number \in AnimationWinningNumbers,
          drawn \in DrawnNumbers :
         SpinReceive(r, balance, frontend_bets,
                     spin_winning_number(animation_winning_number, drawn), Null)
    /\ UNCHANGED <<players, bets, game_rounds, supabase, grading, db, engine, manager>>

\* a fresh player; no round yet, or the betting round an earlier request left
InitSolo ==
    /\ players = [ZeroStats EXCEPT !.balance = InitialBalance]
    /\ bets = <<>>
    /\ game_rounds \in {<<>>, <<NewRound(1)>>}
    /\ req = [r \in Requests |-> IdleRequest]
    /\ db = FreshDb
    /\ engine = FreshEngine
    /\ manager = FreshManager
    /\ supabase = TRUE
    /\ grading = Null

NextSolo ==
    \/ SoloPlaceBetStart(1)
    \/ PlaceBetFindRound(1)
    \/ PlaceBetMaxRound(1)
    \/ PlaceBetInsertRound(1)
    \/ PlaceBetReadBalance(1)
    \/ PlaceBetDeduct(1)
    \/ PlaceBetInsertBet(1)
    \/ PlaceBetRollback(1)
    \/ SoloSpinStart(1)
    \/ SpinReadStats(1)
    \/ SpinUpdatePlayer(1)
    \/ SpinFindRound(1)
    \/ SpinMaxRound(1)
    \/ SpinInsertRound(1)
    \/ SpinInsertBet(1)
    \/ SpinWinRate(1)

SpecSolo == InitSolo /\ [][NextSolo]_vars

---------------------------------------------------------------------------
(* /game/spin requests whose bodies also carry a description of the outcome *)

\* what a /game/spin body carries besides balance, bets and winning_number:
\* nothing, or an outcome the client made up
ClientAttributes ==
    {Null, Some([color |-> "red", is_even |-> TRUE, is_low |-> TRUE,
                 dozen |-> 1, column |-> 1])}

\* batches of one wager
PairSpinBatches == {<<bet>> : bet \in SpinBets}

PairSpinStart(r) ==
    /\ Startable(r)
    /\ \E balance \in ClientBalances, frontend_bets \in PairSpinBatches,
          winning_number \in WinningNumbers, attributes \in ClientAttributes :
         SpinReceive(r, balance, frontend_bets, winning_number, attributes)
    /\ UNCHANGED <<players, bets, game_rounds, supabase, grading, db, engine, manager>>

NextPair ==
    \E r \in Requests :
        \/ PairSpinStart(r)
        \/ SpinReadStats(r)
        \/ SpinUpdatePlayer(r)
        \/ SpinFindRound(r)
        \/ SpinMaxRound(r)
        \/ SpinInsertRound(r)
        \/ SpinInsertBet(r)
        \/ SpinWinRate(r)

SpecPair == Init /\ [][NextPair]_vars

---------------------------------------------------------------------------
(* DatabaseService (services/database.py) *)

\* the arguments a caller of save_spin_result holds for winning number w
SpinOutcome(w) ==
    [winning_number |-> w, color |-> spin_color(w), is_even |-> spin_is_even(w),
     is_low |-> spin_is_low(w), dozen |-> spin_dozen(w), column |-> spin_column(w)]

\* save_spin_result: return when no client was created; else one update of the
\* round's row, whatever its phase; an exception of the update is swallowed
SaveSpinResult(round_id, o) ==
    /\ \/ /\ ~supabase
          /\ game_rounds' = game_rounds
       \/ /\ supabase
          /\ game_rounds' = [game_rounds EXCEPT ![round_id] =
                [@ EXCEPT !.winning_number = Some(o.winning_number),
                          !.color = Some(o.color),
                          !.is_even = Some(o.is_even),
                          !.is_low = Some(o.is_low),
                          !.dozen = Some(o.dozen),
                          !.roulette_column = Some(o.column),
                          !.phase = "completed"]]
       \/ /\ supabase
          /\ game_rounds' = game_rounds
    /\ UNCHANGED <<players, bets, req, supabase, grading, db, engine, manager>>

\* the service is constructed with or without storage credentials, over a table
\* of rounds that reset_phase created one after the other
InitDb ==
    /\ players = [ZeroStats EXCEPT !.balance = InitialBalance]
    /\ bets = <<>>
    /\ game_rounds = [id \in 1..DbRounds |-> NewRound(id)]
    /\ req = [r \in Requests |-> IdleRequest]
    /\ db = FreshDb
    /\ engine = FreshEngine
    /\ manager = FreshManager
    /\ supabase \in BOOLEAN
    /\ grading = Null

NextDb ==
    \E round_id \in DOMAIN game_rounds, w \in 0..36 :
        SaveSpinResult(round_id, SpinOutcome(w))

SpecDb == InitDb /\ [][NextDb]_vars

---------------------------------------------------------------------------
(* DatabaseService: the writing methods update_balances, save_bet and
   save_spin_result, one call after the other, and how each returns *)

\* rows of table "bets" the calls of save_bet may add
DbMaxBets == 2

\* the Payout lists a caller passes to update_balances
DbPayoutLists ==
    { <<>>,
      <<[bet_id |-> 1, amount |-> 20]>>,
      <<[bet_id |-> 1, amount |-> 20], [bet_id |-> 2, amount |-> 360]>> }

\* the arguments of save_bet
DbBets ==
    { [bet_type |-> "red", amount |-> 10, potential_payout |-> 10],
      [bet_type |-> "straight", amount |-> 10, potential_payout |-> 350] }

\* the text f"{column} + {amount}" that update_balances sends as a column value
ColumnPlus(column, amount) == [text |-> column, plus |-> amount]

\* a call that has returned to its caller: raised is TRUE when an exception
\* left the method, failed_write when a storage write of the call failed
Returned(method, wrote_balance, failed_write, raised) ==
    Some([method |-> method, pc |-> "returned", payout_list |-> <<>>,
          wrote_balance |-> wrote_balance, failed_write |-> failed_write,
          raised |-> raised])

NoCallRunning == IF db.call = Null THEN TRUE ELSE db.call[1].pc = "returned"

\* update_balances(payouts): return at once without a client; an empty list
\* returns after the loop; else the first turn of the loop begins
DbUpdateBalancesStart(payout_list) ==
    /\ NoCallRunning
    /\ db' = [db EXCEPT !.call =
            IF ~supabase \/ payout_list = <<>>
            THEN Returned("update_balances", FALSE, FALSE, FALSE)
            ELSE Some([method |-> "update_balances", pc |-> "update",
                       payout_list |-> payout_list, wrote_balance |-> FALSE,
                       failed_write |-> FALSE, raised |-> FALSE])]
    /\ UNCHANGED <<players, bets, game_rounds, req, supabase, grading, engine, manager>>

\* update players set balance = 'balance + <amount>', total_winnings =
\* 'total_winnings + <amount>': the update succeeds, or raises and the
\* method's except clause passes
DbUpdateBalancesUpdate ==
    /\ db.call # Null /\ db.call[1].pc = "update"
    /\ LET payout == Head(db.call[1].payout_list)
       IN  \/ /\ players' = [players EXCEPT
                     !.balance = ColumnPlus("balance", payout.amount),
                     !.total_winnings = ColumnPlus("total_winnings", payout.amount)]
              /\ db' = [db EXCEPT !.call[1].pc = "record",
                                  !.call[1].wrote_balance = TRUE]
           \/ /\ players' = players
              /\ db' = [db EXCEPT !.call =
                            Returned("update_balances", db.call[1].wrote_balance,
                                     TRUE, FALSE)]
    /\ UNCHANGED <<bets, game_rounds, req, supabase, grading, engine, manager>>

\* insert into payouts: building the row reads payout.round_id, which the
\* model Payout does not have; the AttributeError is caught by the method's
\* except clause, nothing is inserted and the method returns None
DbUpdateBalancesRecord ==
    /\ db.call # Null /\ db.call[1].pc = "record"
    /\ db' = [db EXCEPT !.call =
                  Returned("update_balances", db.call[1].wrote_balance, TRUE, FALSE)]
    /\ UNCHANGED <<players, bets, game_rounds, req, supabase, grading, engine, manager>>

\* save_bet: return without a client; else one insert into bets, which
\* succeeds, or raises and the except clause passes
DbSaveBet(round_id, bet) ==
    /\ NoCallRunning
    /\ Len(bets) < DbMaxBets
    /\ \/ /\ ~supabase
          /\ bets' = bets
          /\ db' = [db EXCEPT !.call = Returned("save_bet", FALSE, FALSE, FALSE)]
       \/ /\ supabase
          /\ bets' = Append(bets,
                [round_id |-> round_id, bet_type |-> bet.bet_type,
                 numbers |-> <<>>, amount |-> bet.amount,
                 potential_payout |-> bet.potential_payout,
                 payout_odds |-> Null, is_winner |-> Null, actual_payout |-> Null])
          /\ db' = [db EXCEPT !.call = Returned("save_bet", FALSE, FALSE, FALSE)]
       \/ /\ supabase
          /\ bets' = bets
          /\ db' = [db EXCEPT !.call = Returned("save_bet", FALSE, TRUE, FALSE)]
    /\ UNCHANGED <<players, game_rounds, req, supabase, grading, engine, manager>>

\* save_spin_result, as SaveSpinResult, with how it returns
DbSaveSpinResult(round_id, o) ==
    /\ NoCallRunning
    /\ \/ /\ ~supabase
          /\ game_rounds' = game_rounds
          /\ db' = [db EXCEPT !.call = Returned("save_spin_result", FALSE, FALSE, FALSE)]
       \/ /\ supabase
          /\ game_rounds' = [game_rounds EXCEPT ![round_id] =
                [@ EXCEPT !.winning_number = Some(o.winning_number),
                          !.color = Some(o.color),
                          !.is_even = Some(o.is_even),
                          !.is_low = Some(o.is_low),
                          !.dozen = Some(o.dozen),
                          !.roulette_column = Some(o.column),
                          !.phase = "completed"]]
          /\ db' = [db EXCEPT !.call = Returned("save_spin_result", FALSE, FALSE, FALSE)]
       \/ /\ supabase
          /\ game_rounds' = game_rounds
          /\ db' = [db EXCEPT !.call = Returned("save_spin_result", FALSE, TRUE, FALSE)]
    /\ UNCHANGED <<players, bets, req, supabase, grading, engine, manager>>

NextDbWrites ==
    \/ \E payout_list \in DbPayoutLists : DbUpdateBalancesStart(payout_list)
    \/ DbUpdateBalancesUpdate
    \/ DbUpdateBalancesRecord
    \/ \E round_id \in DOMAIN game_rounds, bet \in DbBets : DbSaveBet(round_id, bet)
    \/ \E round_id \in DOMAIN game_rounds, w \in WinningNumbers :
          DbSaveSpinResult(round_id, SpinOutcome(w))

SpecDbWrites == InitDb /\ [][NextDbWrites]_vars

---------------------------------------------------------------------------
(* GameEngine (services/game_engine.py): outcome, grading, payouts *)

black_numbers == {2,4,6,8,10,11,13,15,17,20,22,24,26,28,29,31,33,35}

\* the SpinResult GameEngine.spin_wheel builds for a drawn number
GameEngine_spin_wheel(winning_number) ==
    [winning_number |-> winning_number,
     color |-> IF winning_number = 0 THEN "green"
               ELSE IF winning_number \in red_numbers THEN "red" ELSE "black",
     is_even |-> winning_number # 0 /\ winning_number % 2 = 0,
     is_low |-> 1 <= winning_number /\ winning_number <= 18,
     dozen |-> IF winning_number = 0 THEN 0 ELSE ((winning_number - 1) \div 12) + 1,
     column |-> IF winning_number = 0 THEN 0 ELSE ((winning_number - 1) % 3) + 1]

\* the members of the enum BetType (models/game.py)
BetType ==
    {"straight", "split", "street", "corner", "line", "dozen", "column",
     "red", "black", "even", "odd", "low", "high"}

\* self.payouts of GameEngine
GameEngine_payouts ==
    [bt \in BetType |->
        CASE bt = "straight" -> 35
          [] bt = "split"    -> 17
          [] bt = "street"   -> 11
          [] bt = "corner"   -> 8
          [] bt = "line"     -> 5
          [] bt = "dozen"    -> 2
          [] bt = "column"   -> 2
          [] bt = "red"      -> 1
          [] bt = "black"    -> 1
          [] bt = "even"     -> 1
          [] bt = "odd"      -> 1
          [] bt = "low"      -> 1
          [] bt = "high"     -> 1]

\* the if/elif chain of GameEngine._is_winning_bet, ending in return False
GameEngine_is_winning_bet(bet, spin_result) ==
    LET winning_number == spin_result.winning_number
    IN  CASE bet.bet_type \in {"straight", "split", "street", "corner", "line"} ->
                InList(winning_number, bet.numbers)
          [] bet.bet_type = "red"   -> winning_number \in red_numbers
          [] bet.bet_type = "black" -> winning_number \in black_numbers
          [] bet.bet_type = "even"  -> winning_number # 0 /\ winning_number % 2 = 0
          [] bet.bet_type = "odd"   -> winning_number # 0 /\ winning_number % 2 = 1
          [] bet.bet_type = "low"   -> 1 <= winning_number /\ winning_number <= 18
          [] bet.bet_type = "high"  -> 19 <= winning_number /\ winning_number <= 36
          [] bet.bet_type = "dozen" ->
                Len(bet.numbers) = 1 /\ spin_result.dozen = bet.numbers[1]
          [] bet.bet_type = "column" ->
                Len(bet.numbers) = 1 /\ spin_result.column = bet.numbers[1]
          [] OTHER -> FALSE

\* GameEngine.calculate_payouts: the amounts of the Payout list, one per winner
RECURSIVE GameEngine_calculate_payouts(_, _)
GameEngine_calculate_payouts(spin_result, bet_list) ==
    IF bet_list = <<>> THEN <<>>
    ELSE LET bet == Head(bet_list)
             rest == GameEngine_calculate_payouts(spin_result, Tail(bet_list))
         IN  IF GameEngine_is_winning_bet(bet, spin_result)
             THEN <<bet.amount + bet.amount * GameEngine_payouts[bet.bet_type]>> \o rest
             ELSE rest

---------------------------------------------------------------------------
(* RouletteEngine (services/roulette_engine.py): bets of a round, outcome,
   grading, payouts *)

\* self.payout_multipliers of RouletteEngine
RouletteEngine_payout_multipliers ==
    [bt \in BetType |->
        CASE bt = "straight" -> 35
          [] bt = "split"    -> 17
          [] bt = "street"   -> 11
          [] bt = "corner"   -> 8
          [] bt = "line"     -> 5
          [] bt = "dozen"    -> 2
          [] bt = "column"   -> 2
          [] bt = "red"      -> 1
          [] bt = "black"    -> 1
          [] bt = "even"     -> 1
          [] bt = "odd"      -> 1
          [] bt = "low"      -> 1
          [] bt = "high"     -> 1]

\* the SpinResult RouletteEngine.spin builds for a drawn number
RouletteEngine_spin(winning_number) ==
    [winning_number |-> winning_number,
     color |-> IF winning_number = 0 THEN "green"
               ELSE IF winning_number \in red_numbers THEN "red" ELSE "black",
     is_even |-> winning_number % 2 = 0 /\ winning_number # 0,
     is_low |-> 1 <= winning_number /\ winning_number <= 18,
     dozen |-> IF winning_number > 0 THEN (winning_number - 1) \div 12 + 1 ELSE 0,
     column |-> IF winning_number > 0 THEN ((winning_number - 1) % 3) + 1 ELSE 0]

\* abs(numbers[0] - numbers[1]) == 1
RouletteEngine_are_adjacent_numbers(numbers) ==
    numbers[1] - numbers[2] = 1 \/ numbers[2] - numbers[1] = 1

\* numbers.sort(); the three are consecutive
RouletteEngine_are_street_numbers(numbers) ==
    LET sorted == SortSeq(numbers, LAMBDA a, b : a < b)
    IN  sorted[2] = sorted[1] + 1 /\ sorted[3] = sorted[2] + 1

RouletteEngine_validate_bet(bet) ==
    IF bet.amount <= 0 THEN FALSE
    ELSE CASE bet.bet_type = "straight" ->
                Len(bet.numbers) = 1 /\ 0 <= bet.numbers[1] /\ bet.numbers[1] <= 36
           [] bet.bet_type = "split" ->
                Len(bet.numbers) = 2 /\ RouletteEngine_are_adjacent_numbers(bet.numbers)
           [] bet.bet_type = "street" ->
                Len(bet.numbers) = 3 /\ RouletteEngine_are_street_numbers(bet.numbers)
           [] bet.bet_type \in {"red", "black", "even", "odd", "low", "high"} ->
                Len(bet.numbers) = 0
           [] OTHER -> TRUE

\* RouletteEngine.place_bet: current_bets after the call.  An invalid bet raises
\* ValueError, a category missing from payout_multipliers raises KeyError, and
\* neither is appended; else the bet is appended with its potential_payout set
RouletteEngine_place_bet(current_bets, bet) ==
    IF ~RouletteEngine_validate_bet(bet) THEN current_bets
    ELSE IF bet.bet_type \notin DOMAIN RouletteEngine_payout_multipliers THEN current_bets
    ELSE Append(current_bets,
                [bet EXCEPT !.potential_payout =
                    bet.amount * RouletteEngine_payout_multipliers[bet.bet_type]])

\* RouletteEngine._is_winning_bet grading a high wager by "not is_low" alone
RouletteEngine_is_winning_bet_HighOnZero(bet, spin_result) ==
    LET winning_number == spin_result.winning_number
    IN  CASE bet.bet_type \in {"straight", "split", "street", "corner", "line"} ->
                InList(winning_number, bet.numbers)
          [] bet.bet_type = "dozen" ->
                IF bet.numbers # <<>> THEN spin_result.dozen = bet.numbers[1] ELSE FALSE
          [] bet.bet_type = "column" ->
                IF bet.numbers # <<>> THEN spin_result.column = bet.numbers[1] ELSE FALSE
          [] bet.bet_type = "red"   -> spin_result.color = "red"
          [] bet.bet_type = "black" -> spin_result.color = "black"
          [] bet.bet_type = "even"  -> spin_result.is_even /\ winning_number # 0
          [] bet.bet_type = "odd"   -> ~spin_result.is_even /\ winning_number # 0
          [] bet.bet_type = "low"   -> spin_result.is_low
          [] bet.bet_type = "high"  -> ~spin_result.is_low
          [] OTHER -> FALSE

\* the if/elif chain of RouletteEngine._is_winning_bet, ending in return False
RouletteEngine_is_winning_bet(bet, spin_result) ==
    LET winning_number == spin_result.winning_number
    IN  CASE bet.bet_type \in {"straight", "split", "street", "corner", "line"} ->
                InList(winning_number, bet.numbers)
          [] bet.bet_type = "dozen" ->
                IF bet.numbers # <<>> THEN spin_result.dozen = bet.numbers[1] ELSE FALSE
          [] bet.bet_type = "column" ->
                IF bet.numbers # <<>> THEN spin_result.column = bet.numbers[1] ELSE FALSE
          [] bet.bet_type = "red"   -> spin_result.color = "red"
          [] bet.bet_type = "black" -> spin_result.color = "black"
          [] bet.bet_type = "even"  -> spin_result.is_even /\ winning_number # 0
          [] bet.bet_type = "odd"   -> ~spin_result.is_even /\ winning_number # 0
          [] bet.bet_type = "low"   -> spin_result.is_low
          [] bet.bet_type = "high"  -> ~spin_result.is_low /\ winning_number # 0
          [] OTHER -> FALSE

\* RouletteEngine.calculate_payouts: the amounts of the Payout list, one per
\* winner of current_bets: the bet's potential_payout
RECURSIVE RouletteEngine_calculate_payouts(_, _)
RouletteEngine_calculate_payouts(current_bets, spin_result) ==
    IF current_bets = <<>> THEN <<>>
    ELSE LET bet == Head(current_bets)
             rest == RouletteEngine_calculate_payouts(Tail(current_bets), spin_result)
         IN  IF RouletteEngine_is_winning_bet(bet, spin_result)
             THEN <<bet.potential_payout>> \o rest
             ELSE rest

---------------------------------------------------------------------------
(* One RouletteEngine instance: place_bet, spin and calculate_payouts called
   in any order.  The methods are coroutines without an await, so each call
   runs to its end before the next begins *)

\* calls made on the instance; placed_at of a bet and spun_at of a spin result
\* are the number of the call that made them
EngineMaxCalls == 4

\* the Bet objects callers pass to place_bet; the last one is invalid
EngineBets ==
    { [bet_type |-> "red", numbers |-> <<>>, amount |-> 10, potential_payout |-> 0],
      [bet_type |-> "straight", numbers |-> <<7>>, amount |-> 10, potential_payout |-> 0],
      [bet_type |-> "red", numbers |-> <<>>, amount |-> 0, potential_payout |-> 0] }

\* place_bet(bet): ValueError for an invalid bet; else the bet gets its
\* potential_payout and round_id = current_round_id and joins current_bets
EnginePlaceBet(bet) ==
    /\ engine.calls < EngineMaxCalls
    /\ LET placed == RouletteEngine_place_bet(
                         engine.current_bets,
                         [round_id |-> engine.current_round_id,
                          placed_at |-> engine.calls + 1] @@ bet)
       IN  engine' = [engine EXCEPT !.current_bets = placed, !.calls = @ + 1]
    /\ UNCHANGED <<players, bets, game_rounds, req, supabase, grading, db, manager>>

\* spin(): the SpinResult of a drawn number, with round_id = current_round_id
EngineSpin(winning_number) ==
    /\ engine.calls < EngineMaxCalls
    /\ engine' = [engine EXCEPT
            !.spin_result = Some([round_id |-> engine.current_round_id,
                                  spun_at |-> engine.calls + 1]
                                 @@ RouletteEngine_spin(winning_number)),
            !.calls = @ + 1]
    /\ UNCHANGED <<players, bets, game_rounds, req, supabase, grading, db, manager>>

\* calculate_payouts(spin_result) with the SpinResult the caller holds: every
\* bet of current_bets is graded against it; then current_bets is emptied and
\* a new current_round_id generated
EngineCalculatePayouts ==
    /\ engine.calls < EngineMaxCalls
    /\ engine.spin_result # Null
    /\ LET spin_result == engine.spin_result[1]
           verdicts == [k \in DOMAIN engine.current_bets |->
                          [bet |-> engine.current_bets[k],
                           spin_result |-> spin_result,
                           is_winner |-> RouletteEngine_is_winning_bet(
                                             engine.current_bets[k], spin_result)]]
       IN  engine' = [engine EXCEPT
               !.graded = @ \o verdicts,
               !.current_bets = <<>>,
               !.current_round_id = @ + 1,
               !.calls = @ + 1]
    /\ UNCHANGED <<players, bets, game_rounds, req, supabase, grading, db, manager>>

NextEngine ==
    \/ \E bet \in EngineBets : EnginePlaceBet(bet)
    \/ \E winning_number \in WinningNumbers : EngineSpin(winning_number)
    \/ EngineCalculatePayouts

SpecEngine == Init /\ [][NextEngine]_vars

---------------------------------------------------------------------------
(* WebSocketManager (utils/websocket_manager.py): connect, disconnect,
   send_personal_message and broadcast on the one instance of main.py; a
   coroutine runs without interruption from one await to the next *)

\* WebSockets accepted
MaxSockets == 3

\* calls of broadcast
MaxBroadcasts == 2

\* the client_id values of the path /ws/{client_id}
Clients == {"a", "b", "c"}

\* list.remove(x) when x is in the list, the list itself when it is not
RECURSIVE Remove(_, _)
Remove(list, x) ==
    IF list = <<>> THEN <<>>
    ELSE IF Head(list) = x THEN Tail(list)
    ELSE <<Head(list)>> \o Remove(Tail(list), x)

\* the manager after disconnect(client_id)
WebSocketManager_disconnect(m, client_id) ==
    LET connections == m.client_connections
    IN  [m EXCEPT
            !.active_connections =
                IF client_id \in DOMAIN connections
                THEN Remove(m.active_connections, connections[client_id])
                ELSE m.active_connections,
            !.client_connections =
                [c \in DOMAIN connections \ {client_id} |-> connections[c]],
            !.player_sessions = m.player_sessions \ {client_id},
            !.game_rooms =
                [room \in DOMAIN m.game_rooms |-> Remove(m.game_rooms[room], client_id)]]

\* the manager after connect(websocket, client_id) up to the await of the
\* welcome message, which send_personal_message sends as client_id is connected
WebSocketManager_connect(m, websocket, client_id) ==
    [m EXCEPT
        !.active_connections = Append(m.active_connections, websocket),
        !.client_connections = (client_id :> websocket) @@ m.client_connections,
        !.player_sessions = m.player_sessions \cup {client_id},
        !.game_rooms = [default |->
            IF InList(client_id, m.game_rooms.default)
            THEN m.game_rooms.default
            ELSE Append(m.game_rooms.default, client_id)],
        !.accepted = websocket,
        !.personal = Append(m.personal, client_id)]

\* the clients of the default room that are connected
Receivers(m) ==
    {c \in DOMAIN m.client_connections : InList(c, m.game_rooms.default)}

\* while a broadcast is suspended, stayed is the set of clients that have been
\* connected in the room since the broadcast began
Track(m) ==
    IF m.broadcast = Null THEN m
    ELSE IF m.broadcast[1].pc = "returned" THEN m
    ELSE [m EXCEPT !.broadcast[1].stayed = @ \cap Receivers(m)]

\* the index at or after pos of the first client of the room list that is in
\* client_connections, Len(room) + 1 when there is none: the turns of the
\* for loop of broadcast that do not await
RECURSIVE NextReceiver(_, _, _)
NextReceiver(room, pos, connected) ==
    IF pos > Len(room) THEN pos
    ELSE IF room[pos] \in connected THEN pos
    ELSE NextReceiver(room, pos + 1, connected)

\* for client_id in dead_connections: self.disconnect(client_id)
RECURSIVE DisconnectAll(_, _)
DisconnectAll(m, dead_connections) ==
    IF dead_connections = <<>> THEN m
    ELSE DisconnectAll(WebSocketManager_disconnect(m, Head(dead_connections)),
                       Tail(dead_connections))

\* broadcast runs from index pos of the list iterator to its next await, the
\* send to the next client of the room list as the list is now, or to its end:
\* the dead connections are disconnected and the call returns
WebSocketManager_broadcast(m, pos, dead_connections, attempted, stayed) ==
    LET room == m.game_rooms.default
        i == NextReceiver(room, pos, DOMAIN m.client_connections)
    IN  IF i <= Len(room)
        THEN [m EXCEPT !.broadcast =
                Some([pc |-> "sending", pos |-> i + 1, client_id |-> room[i],
                      dead_connections |-> dead_connections,
                      attempted |-> attempted \cup {room[i]},
                      stayed |-> stayed])]
        ELSE [DisconnectAll(m, dead_connections) EXCEPT !.broadcast =
                Some([pc |-> "returned", pos |-> i, client_id |-> "",
                      dead_connections |-> dead_connections,
                      attempted |-> attempted, stayed |-> stayed])]

\* the endpoint /ws/{client_id} accepts a WebSocket and calls connect
ManagerConnect(client_id) ==
    /\ manager.accepted < MaxSockets
    /\ manager' = Track(WebSocketManager_connect(manager, manager.accepted + 1, client_id))
    /\ UNCHANGED <<players, bets, game_rounds, req, supabase, grading, db, engine>>

\* the endpoint catches WebSocketDisconnect and calls disconnect(client_id);
\* for a client_id that has no session the call changes nothing
ManagerDisconnect(client_id) ==
    /\ client_id \in manager.player_sessions
    /\ manager' = Track(WebSocketManager_disconnect(manager, client_id))
    /\ UNCHANGED <<players, bets, game_rounds, req, supabase, grading, db, engine>>

\* the send of send_personal_message number k returns
ManagerPersonalSent(k) ==
    /\ k \in DOMAIN manager.personal
    /\ manager' = [manager EXCEPT !.personal =
            SubSeq(manager.personal, 1, k - 1) \o
            SubSeq(manager.personal, k + 1, Len(manager.personal))]
    /\ UNCHANGED <<players, bets, game_rounds, req, supabase, grading, db, engine>>

\* the send of send_personal_message number k raises: disconnect(client_id)
ManagerPersonalFailed(k) ==
    /\ k \in DOMAIN manager.personal
    /\ manager' = Track(
            [WebSocketManager_disconnect(manager, manager.personal[k])
                EXCEPT !.personal =
                    SubSeq(manager.personal, 1, k - 1) \o
                    SubSeq(manager.personal, k + 1, Len(manager.personal))])
    /\ UNCHANGED <<players, bets, game_rounds, req, supabase, grading, db, engine>>

BroadcastRunning ==
    IF manager.broadcast = Null THEN FALSE
    ELSE manager.broadcast[1].pc = "sending"

\* broadcast(message) is called for the default room
ManagerBroadcastStart ==
    /\ ~BroadcastRunning
    /\ manager.broadcasts < MaxBroadcasts
    /\ manager' = WebSocketManager_broadcast(
            [manager EXCEPT !.broadcasts = @ + 1], 1, <<>>, {}, Receivers(manager))
    /\ UNCHANGED <<players, bets, game_rounds, req, supabase, grading, db, engine>>

\* the send of the broadcast returns: the loop goes on
ManagerBroadcastSent ==
    /\ BroadcastRunning
    /\ LET b == manager.broadcast[1]
       IN  manager' = WebSocketManager_broadcast(
               manager, b.pos, b.dead_connections, b.attempted, b.stayed)
    /\ UNCHANGED <<players, bets, game_rounds, req, supabase, grading, db, engine>>

\* the send of the broadcast raises: the client is appended to
\* dead_connections and the loop goes on
ManagerBroadcastFailed ==
    /\ BroadcastRunning
    /\ LET b == manager.broadcast[1]
       IN  manager' = WebSocketManager_broadcast(
               manager, b.pos, Append(b.dead_connections, b.client_id),
               b.attempted, b.stayed)
    /\ UNCHANGED <<players, bets, game_rounds, req, supabase, grading, db, engine>>

NextManager ==
    \/ \E client_id \in Clients : ManagerConnect(client_id)
    \/ \E client_id \in Clients : ManagerDisconnect(client_id)
    \/ \E k \in 1..MaxSockets : ManagerPersonalSent(k)
    \/ \E k \in 1..MaxSockets : ManagerPersonalFailed(k)
    \/ ManagerBroadcastStart
    \/ ManagerBroadcastSent
    \/ ManagerBroadcastFailed

SpecManager == Init /\ [][NextManager]_vars

---------------------------------------------------------------------------
(* The three graders applied to one wager and one winning number *)

\* category and numbers of the wagers that are graded: every category with
\* well-formed numbers, dozen and column wagers with no selector, selector 0 or
\* two selectors, a straight wager with two numbers, and a category that is
\* not known
GradeSelections ==
    { [bet_type |-> "straight", numbers |-> <<7>>],
      [bet_type |-> "straight", numbers |-> <<0>>],
      [bet_type |-> "straight", numbers |-> <<7, 8>>],
      [bet_type |-> "split",    numbers |-> <<7, 8>>],
      [bet_type |-> "split",    numbers |-> <<0, 1>>],
      [bet_type |-> "street",   numbers |-> <<9, 7, 8>>],
      [bet_type |-> "corner",   numbers |-> <<7, 8, 10, 11>>],
      [bet_type |-> "line",     numbers |-> <<7, 8, 9, 10, 11, 12>>],
      [bet_type |-> "dozen",    numbers |-> <<0>>],
      [bet_type |-> "dozen",    numbers |-> <<1, 2>>],
      [bet_type |-> "dozen",    numbers |-> <<>>],
      [bet_type |-> "column",   numbers |-> <<0>>],
      [bet_type |-> "column",   numbers |-> <<2, 3>>],
      [bet_type |-> "joker",    numbers |-> <<>>],
      [bet_type |-> "joker",    numbers |-> <<7>>] }
    \cup [bet_type : {"dozen", "column"}, numbers : {<<1>>, <<2>>, <<3>>}]
    \cup [bet_type : {"red", "black", "even", "odd", "low", "high"}, numbers : {<<>>}]

GradeStakes == {5, 10}

\* a Bet as its caller constructs it
GradeWagers ==
    { [bet_type |-> sel.bet_type, numbers |-> sel.numbers, amount |-> amount,
       potential_payout |-> 0] : sel \in GradeSelections, amount \in GradeStakes }

Ungraded(bet, winning_number) ==
    [bet |-> bet, winning_number |-> winning_number,
     spin |-> Null, game_engine |-> Null, roulette_engine |-> Null]

\* the first pass of spin_wheel over the batch made of the one wager
GradeSpin ==
    /\ grading.spin = Null
    /\ LET bet == grading.bet
           frontend_bets == <<[betType |-> bet.bet_type, amount |-> bet.amount,
                               numbers |-> bet.numbers]>>
           payouts == spin_payouts(frontend_bets, grading.winning_number)
       IN  grading' = [grading EXCEPT !.spin =
               Some([is_winner |-> spin_is_winner(bet.bet_type, bet.numbers,
                                                  grading.winning_number),
                     paid |-> SumSeq(payouts)])]
    /\ UNCHANGED <<players, bets, game_rounds, req, supabase, db, engine, manager>>

\* GameEngine: spin_wheel drew the number; calculate_payouts over the one wager
GradeGameEngine ==
    /\ grading.game_engine = Null
    /\ LET spin_result == GameEngine_spin_wheel(grading.winning_number)
           payouts == GameEngine_calculate_payouts(spin_result, <<grading.bet>>)
       IN  grading' = [grading EXCEPT !.game_engine =
               Some([is_winner |-> GameEngine_is_winning_bet(grading.bet, spin_result),
                     paid |-> SumSeq(payouts)])]
    /\ UNCHANGED <<players, bets, game_rounds, req, supabase, db, engine, manager>>

\* RouletteEngine: place_bet of the one wager on a fresh engine; spin drew the
\* number; calculate_payouts
GradeRouletteEngine ==
    /\ grading.roulette_engine = Null
    /\ LET current_bets == RouletteEngine_place_bet(<<>>, grading.bet)
           spin_result == RouletteEngine_spin(grading.winning_number)
           payouts == RouletteEngine_calculate_payouts(current_bets, spin_result)
       IN  grading' = [grading EXCEPT !.roulette_engine =
               Some([placed |-> current_bets # <<>>,
                     is_winner |-> RouletteEngine_is_winning_bet(grading.bet, spin_result),
                     paid |-> SumSeq(payouts)])]
    /\ UNCHANGED <<players, bets, game_rounds, req, supabase, db, engine, manager>>

InitGrade ==
    /\ players = [ZeroStats EXCEPT !.balance = InitialBalance]
    /\ bets = <<>>
    /\ game_rounds = <<>>
    /\ req = [r \in Requests |-> IdleRequest]
    /\ db = FreshDb
    /\ engine = FreshEngine
    /\ manager = FreshManager
    /\ supabase = TRUE
    /\ grading \in {Ungraded(bet, winning_number) :
                        bet \in GradeWagers, winning_number \in 0..36}

NextGrade == GradeSpin \/ GradeGameEngine \/ GradeRouletteEngine

SpecGrade == InitGrade /\ [][NextGrade]_vars

---------------------------------------------------------------------------
(* GET /player/stats, next to /game/place-bet and /game/spin *)

\* get_current_user reads the player row
StatsReceive(r) ==
    Set(r, [pc |-> "st_read_player", kind |-> "stats",
            current_user_balance |-> players.balance])

GetPlayerStatsStart(r) ==
    /\ Startable(r)
    /\ StatsReceive(r)
    /\ UNCHANGED <<players, bets, game_rounds, supabase, grading, db, engine, manager>>

\* select balance, games_played from players
StatsReadPlayer(r) ==
    /\ req[r].pc = "st_read_player"
    /\ Set(r, [pc |-> "st_read_bets", latest_balance |-> players.balance,
               latest_games_played |-> players.games_played])
    /\ UNCHANGED <<players, bets, game_rounds, supabase, grading, db, engine, manager>>

\* select amount, actual_payout, is_winner from bets where is_winner is not
\* null; the totals; answer 200
StatsReadBets(r) ==
    /\ req[r].pc = "st_read_bets"
    /\ LET processed == ProcessedBets(bets)
           total_wagered == SumSeq([k \in DOMAIN processed |-> processed[k].amount])
           total_payout == SumSeq([k \in DOMAIN processed |->
                               IF processed[k].actual_payout = Null THEN 0
                               ELSE processed[k].actual_payout[1]])
           net_profit == total_payout - total_wagered
           total_bets == Len(processed)
           winning_bets_count == WinningBetsCount(processed)
       IN  Set(r, [pc |-> "done", status |-> 200,
                   stats |-> Some([balance |-> req[r].latest_balance,
                                   totalWon |-> net_profit,
                                   totalWagered |-> total_wagered,
                                   totalBets |-> total_bets,
                                   games_played |-> req[r].latest_games_played,
                                   win_rate |-> round_win_rate(winning_bets_count, total_bets),
                                   net_result |-> net_profit])])
    /\ UNCHANGED <<players, bets, game_rounds, supabase, grading, db, engine, manager>>

\* request bodies of /game/place-bet: one that is accepted, one that is not
StatsPlaceBetInputs ==
    { [bet_type |-> "red", amount |-> 10, numbers |-> <<>>],
      [bet_type |-> "red", amount |-> 0,  numbers |-> <<>>] }

\* batches of /game/spin: on 7 the red wager wins and the black one loses
StatsSpinBatches ==
    { <<[betType |-> "red", amount |-> 10, numbers |-> <<>>]>>,
      <<[betType |-> "red", amount |-> 10, numbers |-> <<>>],
        [betType |-> "black", amount |-> 10, numbers |-> <<>>]>> }

StatsPlaceBetStart(r) ==
    /\ Startable(r)
    /\ \E in \in StatsPlaceBetInputs : PlaceBetReceive(r, in)
    /\ UNCHANGED <<players, bets, game_rounds, supabase, grading, db, engine, manager>>

StatsSpinStart(r) ==
    /\ Startable(r)
    /\ \E frontend_bets \in StatsSpinBatches, winning_number \in WinningNumbers :
         SpinReceive(r, Null, frontend_bets, winning_number, Null)
    /\ UNCHANGED <<players, bets, game_rounds, supabase, grading, db, engine, manager>>

NextStats ==
    \E r \in Requests :
        \/ StatsPlaceBetStart(r)
        \/ PlaceBetFindRound(r)
        \/ PlaceBetMaxRound(r)
        \/ PlaceBetInsertRound(r)
        \/ PlaceBetReadBalance(r)
        \/ PlaceBetDeduct(r)
        \/ PlaceBetInsertBet(r)
        \/ PlaceBetRollback(r)
        \/ StatsSpinStart(r)
        \/ SpinReadStats(r)
        \/ SpinUpdatePlayer(r)
        \/ SpinFindRound(r)
        \/ SpinMaxRound(r)
        \/ SpinInsertRound(r)
        \/ SpinInsertBet(r)
        \/ SpinWinRate(r)
        \/ GetPlayerStatsStart(r)
        \/ StatsReadPlayer(r)
        \/ StatsReadBets(r)

SpecStats == Init /\ [][NextStats]_vars

---------------------------------------------------------------------------
(* /game/spin and /player/stats, one request after the other *)

\* wagers of a /game/spin batch: two well-formed, a negative stake, an unknown
\* category
LedgerSpinBets ==
    { [betType |-> "red",      amount |-> 10,  numbers |-> <<>>],
      [betType |-> "straight", amount |-> 5,   numbers |-> <<7>>],
      [betType |-> "red",      amount |-> -20, numbers |-> <<>>],
      [betType |-> "joker",    amount |-> 10,  numbers |-> <<>>] }

LedgerSpinBatches == UNION {[1..n -> LedgerSpinBets] : n \in 0..MaxBatch}

\* the client sends request r after every earlier request has been answered
AfterAnswers(r) ==
    /\ Startable(r)
    /\ \A o \in Requests \ {r} : req[o].pc \in {"idle", "done"}

LedgerSpinStart(r) ==
    /\ AfterAnswers(r)
    /\ \E balance \in ClientBalances, frontend_bets \in LedgerSpinBatches,
          winning_number \in WinningNumbers :
         SpinReceive(r, balance, frontend_bets, winning_number, Null)
    /\ UNCHANGED <<players, bets, game_rounds, supabase, grading, db, engine, manager>>

LedgerGetPlayerStatsStart(r) ==
    /\ AfterAnswers(r)
    /\ StatsReceive(r)
    /\ UNCHANGED <<players, bets, game_rounds, supabase, grading, db, engine, manager>>

NextLedger ==
    \E r \in Requests :
        \/ LedgerSpinStart(r)
        \/ SpinReadStats(r)
        \/ SpinUpdatePlayer(r)
        \/ SpinFindRound(r)
        \/ SpinMaxRound(r)
        \/ SpinInsertRound(r)
        \/ SpinInsertBet(r)
        \/ SpinWinRate(r)
        \/ LedgerGetPlayerStatsStart(r)
        \/ StatsReadPlayer(r)
        \/ StatsReadBets(r)

SpecLedger == Init /\ [][NextLedger]_vars

---------------------------------------------------------------------------
(* One wager of each category, placed by /game/place-bet or settled by
   /game/spin *)

\* GameEngine.calculate_potential_payout: self.payouts.get(bet_type, 0)
GameEngine_calculate_potential_payout(bet_type, amount) ==
    amount * (IF bet_type \in DOMAIN GameEngine_payouts
              THEN GameEngine_payouts[bet_type] ELSE 0)

\* numbers a client sends with a wager of the category
OddsNumbers(bet_type) ==
    CASE bet_type = "straight" -> <<7>>
      [] bet_type = "split"    -> <<7, 8>>
      [] bet_type = "street"   -> <<7, 8, 9>>
      [] bet_type = "corner"   -> <<7, 8, 10, 11>>
      [] bet_type = "line"     -> <<7, 8, 9, 10, 11, 12>>
      [] bet_type \in {"dozen", "column"} -> <<1>>
      [] OTHER -> <<>>

OddsStakes == {5, 10}

OddsPlaceBetStart(r) ==
    /\ Startable(r)
    /\ \E bet_type \in valid_bet_types, amount \in OddsStakes :
         PlaceBetReceive(r, [bet_type |-> bet_type, amount |-> amount,
                             numbers |-> OddsNumbers(bet_type)])
    /\ UNCHANGED <<players, bets, game_rounds, supabase, grading, db, engine, manager>>

OddsSpinStart(r) ==
    /\ Startable(r)
    /\ \E bet_type \in valid_bet_types, amount \in OddsStakes,
          winning_number \in WinningNumbers :
         SpinReceive(r, Null,
                     <<[betType |-> bet_type, amount |-> amount,
                        numbers |-> OddsNumbers(bet_type)]>>,
                     winning_number, Null)
    /\ UNCHANGED <<players, bets, game_rounds, supabase, grading, db, engine, manager>>

NextOdds ==
    \/ OddsPlaceBetStart(1)
    \/ PlaceBetFindRound(1)
    \/ PlaceBetMaxRound(1)
    \/ PlaceBetInsertRound(1)
    \/ PlaceBetReadBalance(1)
    \/ PlaceBetDeduct(1)
    \/ PlaceBetInsertBet(1)
    \/ PlaceBetRollback(1)
    \/ OddsSpinStart(1)
    \/ SpinReadStats(1)
    \/ SpinUpdatePlayer(1)
    \/ SpinFindRound(1)
    \/ SpinMaxRound(1)
    \/ SpinInsertRound(1)
    \/ SpinInsertBet(1)
    \/ SpinWinRate(1)

SpecOdds == InitSolo /\ [][NextOdds]_vars

---------------------------------------------------------------------------
(* The validators of inside wagers: GameEngine.validate_bet,
   RouletteEngine._validate_bet and BackupBetParser (services/ai_service.py) *)

Abs(x) == IF x < 0 THEN 0 - x ELSE x

\* sorted(numbers), numbers.sort()
Sorted(numbers) == SortSeq(numbers, LAMBDA a, b : a < b)

\* list(range(start, end + 1))
Range(start, end) ==
    IF end < start THEN <<>> ELSE [i \in 1..(end - start + 1) |-> start + i - 1]

GameEngine_are_adjacent(num1, num2) == Abs(num1 - num2) = 1 \/ Abs(num1 - num2) = 3

GameEngine_is_valid_street(numbers) ==
    IF Len(numbers) # 3 THEN FALSE
    ELSE LET numbers_sorted == Sorted(numbers)
         IN  /\ numbers_sorted[2] = numbers_sorted[1] + 1
             /\ numbers_sorted[3] = numbers_sorted[2] + 1

GameEngine_is_valid_corner(numbers) ==
    IF Len(numbers) # 4 THEN FALSE ELSE TRUE

GameEngine_is_valid_line(numbers) ==
    IF Len(numbers) # 6 THEN FALSE ELSE TRUE

\* GameEngine.validate_bet: TRUE for (True, "Valid bet")
GameEngine_validate_bet(bet_request, player_balance) ==
    LET bet_type == bet_request.bet_type
        numbers == bet_request.numbers
    IN  IF bet_request.amount <= 0 THEN FALSE
        ELSE IF bet_request.amount > player_balance THEN FALSE
        ELSE CASE bet_type = "straight" ->
                    Len(numbers) = 1 /\ 0 <= numbers[1] /\ numbers[1] <= 36
               [] bet_type = "split" ->
                    Len(numbers) = 2 /\ GameEngine_are_adjacent(numbers[1], numbers[2])
               [] bet_type = "street" ->
                    Len(numbers) = 3 /\ GameEngine_is_valid_street(numbers)
               [] bet_type = "corner" ->
                    Len(numbers) = 4 /\ GameEngine_is_valid_corner(numbers)
               [] bet_type = "line" ->
                    Len(numbers) = 6 /\ GameEngine_is_valid_line(numbers)
               [] bet_type \in {"red", "black", "even", "odd", "low", "high"} ->
                    numbers = <<>>
               [] bet_type \in {"dozen", "column"} ->
                    Len(numbers) = 1 /\ numbers[1] \in {1, 2, 3}
               [] OTHER -> TRUE

BackupBetParser_validate_split(num1, num2) ==
    IF ~(0 <= num1 /\ num1 <= 36 /\ 0 <= num2 /\ num2 <= 36) THEN FALSE
    ELSE IF Abs(num1 - num2) = 1
         THEN IF num1 = 0 \/ num2 = 0
              THEN num1 \in {0, 1, 2, 3} /\ num2 \in {0, 1, 2, 3}
              ELSE (num1 - 1) \div 3 = (num2 - 1) \div 3
    ELSE IF Abs(num1 - num2) = 3 THEN TRUE
    ELSE FALSE

BackupBetParser_validate_street(numbers) ==
    IF Len(numbers) # 3 THEN FALSE
    ELSE LET sorted == Sorted(numbers)
             row == (sorted[1] - 1) \div 3
         IN  IF sorted[2] - sorted[1] = 1 /\ sorted[3] - sorted[2] = 1
             THEN \A i \in 1..3 : sorted[i] > 0 => (sorted[i] - 1) \div 3 = row
             ELSE FALSE

BackupBetParser_validate_corner(numbers) ==
    IF Len(numbers) # 4 THEN FALSE
    ELSE LET sorted == Sorted(numbers)
         IN  /\ sorted[2] - sorted[1] = 1
             /\ sorted[3] - sorted[1] = 3
             /\ sorted[4] - sorted[2] = 3

\* the list, or Null for None
BackupBetParser_get_line_numbers(start, end) ==
    IF Abs(end - start) = 5 /\ start % 3 = 1 THEN Some(Range(start, end)) ELSE Null

\* the largest number a selection starts at
ShapeMaxNumber == 39

ShapeNumbers == 0..ShapeMaxNumber

\* the numbers of the inside wagers that are validated: every pair; triples,
\* quadruples and sextuples around every number, in rising and falling order
ShapeSelections ==
    [bet_type : {"split"}, numbers : {<<a, b>> : a \in ShapeNumbers, b \in ShapeNumbers}]
    \cup [bet_type : {"street"},
          numbers : UNION {{<<a, a + d, a + d + e>>, <<a + d + e, a + d, a>>,
                            <<a + d, a, a + d + e>>} :
                               a \in ShapeNumbers, d \in 1..2, e \in 1..2}]
    \cup [bet_type : {"corner"},
          numbers : UNION {{<<a, a + o[1], a + o[2], a + o[3]>>,
                            <<a + o[3], a + o[2], a + o[1], a>>} :
                               a \in ShapeNumbers,
                               o \in {<<1, 3, 4>>, <<1, 2, 3>>, <<1, 3, 5>>, <<2, 3, 4>>}}]
    \cup [bet_type : {"line"},
          numbers : UNION {{Range(a, a + 5),
                            <<a + 5, a + 4, a + 3, a + 2, a + 1, a>>,
                            Range(a, a + 4) \o <<a + 6>>} :
                               a \in ShapeNumbers}]

\* the stake of the validated wager, within the balance
ShapeStake == 10

Unvalidated(sel) ==
    [bet_type |-> sel.bet_type, numbers |-> sel.numbers,
     game_engine |-> Null, roulette_engine |-> Null, backup_parser |-> Null]

\* GameEngine.validate_bet on the wager
ValidateGameEngine ==
    /\ grading.game_engine = Null
    /\ grading' = [grading EXCEPT !.game_engine =
            Some([accepted |-> GameEngine_validate_bet(
                                   [bet_type |-> grading.bet_type,
                                    numbers |-> grading.numbers,
                                    amount |-> ShapeStake], InitialBalance),
                  numbers |-> grading.numbers])]
    /\ UNCHANGED <<players, bets, game_rounds, req, supabase, db, engine, manager>>

\* RouletteEngine._validate_bet on the wager
ValidateRouletteEngine ==
    /\ grading.roulette_engine = Null
    /\ grading' = [grading EXCEPT !.roulette_engine =
            Some([accepted |-> RouletteEngine_validate_bet(
                                   [bet_type |-> grading.bet_type,
                                    numbers |-> grading.numbers,
                                    amount |-> ShapeStake, potential_payout |-> 0]),
                  numbers |-> grading.numbers])]
    /\ UNCHANGED <<players, bets, game_rounds, req, supabase, db, engine, manager>>

\* BackupBetParser.parse on a command that names the numbers: two for a split,
\* three for a street, four for a corner, and the first and the last of a
\* line ("line 1-6"), whose numbers are then the range between them
ValidateBackupBetParser ==
    /\ grading.backup_parser = Null
    /\ LET numbers == grading.numbers
           line == BackupBetParser_get_line_numbers(numbers[1], numbers[Len(numbers)])
       IN  grading' = [grading EXCEPT !.backup_parser =
             CASE grading.bet_type = "split" ->
                    Some([accepted |-> BackupBetParser_validate_split(numbers[1], numbers[2]),
                          numbers |-> numbers])
               [] grading.bet_type = "street" ->
                    Some([accepted |-> BackupBetParser_validate_street(numbers),
                          numbers |-> numbers])
               [] grading.bet_type = "corner" ->
                    Some([accepted |-> BackupBetParser_validate_corner(numbers),
                          numbers |-> numbers])
               [] grading.bet_type = "line" ->
                    Some([accepted |-> line # Null /\ line # Some(<<>>),
                          numbers |-> Range(numbers[1], numbers[Len(numbers)])])]
    /\ UNCHANGED <<players, bets, game_rounds, req, supabase, db, engine, manager>>

InitShape ==
    /\ players = [ZeroStats EXCEPT !.balance = InitialBalance]
    /\ bets = <<>>
    /\ game_rounds = <<>>
    /\ req = [r \in Requests |-> IdleRequest]
    /\ db = FreshDb
    /\ engine = FreshEngine
    /\ manager = FreshManager
    /\ supabase = TRUE
    /\ grading \in {Unvalidated(sel) : sel \in ShapeSelections}

NextShape == ValidateGameEngine \/ ValidateRouletteEngine \/ ValidateBackupBetParser

SpecShape == InitShape /\ [][NextShape]_vars

---------------------------------------------------------------------------
(* The four classifications of a winning number: /game/spin,
   /game/get-winning-number, GameEngine.spin_wheel and RouletteEngine.spin *)

\* the body /game/get-winning-number answers for a drawn number
get_winning_number(winning_number) ==
    [winning_number |-> winning_number,
     color |-> IF winning_number = 0 THEN "green"
               ELSE IF InList(winning_number,
                              <<1,3,5,7,9,12,14,16,18,19,21,23,25,27,30,32,34,36>>)
                    THEN "red"
               ELSE "black",
     is_even |-> winning_number % 2 = 0 /\ winning_number # 0,
     is_low |-> 1 <= winning_number /\ winning_number <= 18,
     dozen |-> IF winning_number > 0 THEN (winning_number - 1) \div 12 + 1 ELSE 0,
     column |-> IF winning_number % 3 # 0 THEN winning_number % 3
                ELSE IF winning_number > 0 THEN 3 ELSE 0]

Unclassified(winning_number) ==
    [winning_number |-> winning_number, spin |-> Null, get_winning_number |-> Null,
     game_engine |-> Null, roulette_engine |-> Null]

\* /game/spin classifies the number
ClassifySpin ==
    /\ grading.spin = Null
    /\ grading' = [grading EXCEPT !.spin = Some(SpinOutcome(grading.winning_number))]
    /\ UNCHANGED <<players, bets, game_rounds, req, supabase, db, engine, manager>>

\* /game/get-winning-number classifies the number
ClassifyGetWinningNumber ==
    /\ grading.get_winning_number = Null
    /\ grading' = [grading EXCEPT !.get_winning_number =
                        Some(get_winning_number(grading.winning_number))]
    /\ UNCHANGED <<players, bets, game_rounds, req, supabase, db, engine, manager>>

\* GameEngine.spin_wheel classifies the number
ClassifyGameEngine ==
    /\ grading.game_engine = Null
    /\ grading' = [grading EXCEPT !.game_engine =
                        Some(GameEngine_spin_wheel(grading.winning_number))]
    /\ UNCHANGED <<players, bets, game_rounds, req, supabase, db, engine, manager>>

\* RouletteEngine.spin classifies the number
ClassifyRouletteEngine ==
    /\ grading.roulette_engine = Null
    /\ grading' = [grading EXCEPT !.roulette_engine =
                        Some(RouletteEngine_spin(grading.winning_number))]
    /\ UNCHANGED <<players, bets, game_rounds, req, supabase, db, engine, manager>>

\* random.randint(0, 36)
InitOutcome ==
    /\ players = [ZeroStats EXCEPT !.balance = InitialBalance]
    /\ bets = <<>>
    /\ game_rounds = <<>>
    /\ req = [r \in Requests |-> IdleRequest]
    /\ db = FreshDb
    /\ engine = FreshEngine
    /\ manager = FreshManager
    /\ supabase = TRUE
    /\ grading \in {Unclassified(winning_number) : winning_number \in 0..36}

NextOutcome ==
    ClassifySpin \/ ClassifyGetWinningNumber \/ ClassifyGameEngine \/ ClassifyRouletteEngine

SpecOutcome == InitOutcome /\ [][NextOutcome]_vars

---------------------------------------------------------------------------
(* Properties *)

Others(r) == Requests \ {r}

Alone(r) == \A o \in Others(r) : req[o].pc = "idle"

\* stakes of the wager rows placed by /game/place-bet (not graded yet)
PlacedStakes == SumSeq([k \in DOMAIN bets |->
                    IF bets[k].is_winner = Null THEN bets[k].amount ELSE 0])

\* the spin request r has written the player row
SpinWrote(r) ==
    /\ req[r].kind = "spin"
    /\ \/ req[r].pc \in {"sp_find_round", "sp_max_round", "sp_insert_round",
                         "sp_insert_bet", "sp_win_rate"}
       \/ req[r].pc = "done" /\ req[r].status \in {200, 500}

\* C1: after place-bet requests that all returned success, in any
\* interleaving, the stored balance is the balance before them minus the sum
\* of their stakes.
C1_PlaceBetDeductionsNotLost ==
    (\A r \in Requests :
        \/ req[r].pc = "idle"
        \/ req[r].kind = "place_bet" /\ req[r].pc = "done" /\ req[r].status = 200)
    => players.balance =
         InitialBalance - SumSeq([r \in Requests |->
                                    IF req[r].pc = "done" THEN req[r].amount ELSE 0])

\* C2: a /game/spin request that ran alone and answered 500 because a wager
\* insert failed has left the stored balance at its pre-settlement value.
C2_SpinFailureRestoresBalance ==
    \A r \in Requests :
        (req[r].kind = "spin" /\ req[r].pc = "done" /\ req[r].status = 500 /\ Alone(r))
        => players.balance = InitialBalance

\* the step that ends a place-bet request whose wager insert failed: status
\* 500, and the stored balance is the value read just before the deduction
C3_RollbackStep ==
    \A r \in Requests :
        (req[r].pc = "pb_rollback" /\ req'[r] # req[r])
        => /\ req'[r].pc = "done"
           /\ req'[r].status = 500
           /\ players'.balance = req[r].latest_balance

\* a place-bet request that ran alone has ended with the balance plus the
\* placed stakes equal to the initial balance, and a 500 left no wager row
C3_AloneTerminal ==
    \A r \in Requests :
        (req[r].kind = "place_bet" /\ req[r].pc = "done" /\ Alone(r))
        => /\ players.balance + PlacedStakes = InitialBalance
           /\ req[r].status = 500 => (bets = <<>> /\ players.balance = InitialBalance)

C4_ClientBalanceIgnored ==
    \A r1, r2 \in Requests :
        (/\ SpinWrote(r1) /\ SpinWrote(r2)
         /\ req[r1].frontend_bets = req[r2].frontend_bets
         /\ req[r1].winning_number = req[r2].winning_number
         /\ req[r1].current_user_balance = req[r2].current_user_balance
         /\ req[r1].current_stats.balance = req[r2].current_stats.balance)
        => req[r1].new_balance = req[r2].new_balance

\* C5: /game/spin writes the player row only when the balance it re-read just
\* before covers the total stake of the batch.
C5_SpinRejectsInsufficientBalance ==
    \A r \in Requests :
        SpinWrote(r) => req[r].current_stats.balance >= req[r].total_wagered

\* C6: at most one round is in phase betting.
C6_OneBettingRound == Cardinality(BettingRoundIds) <= 1

\* C7: round numbers strictly increase in the order the rounds were created
\* (so no two rounds share one), and requests that find no betting round
\* create one round between them: without a reset-phase request the table
\* never holds a second round.
C7_RoundNumbersUniqueIncreasing ==
    /\ \A i, j \in DOMAIN game_rounds :
          i < j => game_rounds[i].round_number < game_rounds[j].round_number
    /\ (\A r \in Requests : req[r].kind # "reset_phase") => Len(game_rounds) <= 1

\* C8: the graded wagers stored with one round id agree with one winning number.
C8_OneOutcomePerRound ==
    \A id \in DOMAIN game_rounds :
        \E w \in 0..36 :
            \A k \in DOMAIN bets :
                (bets[k].round_id = id /\ bets[k].is_winner # Null)
                => bets[k].is_winner =
                     Some(spin_is_winner(bets[k].bet_type, bets[k].numbers, w))

\* C9: once /game/spin has answered 200, the round of its wagers is completed,
\* carries the winning number, and is not a betting round any more.
C9_SpinCompletesRound ==
    \A r \in Requests :
        (req[r].kind = "spin" /\ req[r].pc = "done" /\ req[r].status = 200)
        => /\ game_rounds[req[r].round_id].phase = "completed"
           /\ game_rounds[req[r].round_id].winning_number = Some(req[r].winning_number)
           /\ req[r].round_id \notin BettingRoundIds

\* C10: save_spin_result on a completed round leaves the round's row, and so
\* its stored outcome, unchanged.
C10_CompletedRoundKeepsOutcome ==
    [][\A id \in DOMAIN game_rounds :
          game_rounds[id].phase = "completed" => game_rounds'[id] = game_rounds[id]]_vars

\* C11: a /game/place-bet request answered 400 (its stake exceeds the balance
\* it read, at the first check or at the re-read) has inserted no round: it never
\* went through the create-round branch.  The balance and the wager rows are
\* written only after the re-read check, so the round is the one row at stake.
C11_RejectedPlaceBetCreatesNoRound ==
    \A r \in Requests :
        (req[r].kind = "place_bet" /\ req[r].pc = "done" /\ req[r].status = 400)
        => req[r].next_round_number = 0

\* the structural rule of a wager's category: the count of selected numbers an
\* inside bet carries, no numbers on an outside bet, one selector in 1..3 on a
\* dozen or column bet; a category that is not known has no rule
StructuralRule(bet_type, numbers) ==
    CASE bet_type = "straight" -> Len(numbers) = 1 /\ numbers[1] \in 0..36
      [] bet_type = "split"    -> Len(numbers) = 2
      [] bet_type = "street"   -> Len(numbers) = 3
      [] bet_type = "corner"   -> Len(numbers) = 4
      [] bet_type = "line"     -> Len(numbers) = 6
      [] bet_type \in {"dozen", "column"} -> Len(numbers) = 1 /\ numbers[1] \in 1..3
      [] bet_type \in {"red", "black", "even", "odd", "low", "high"} -> numbers = <<>>
      [] OTHER -> TRUE

\* C12: a wager that violates the structural rule of its category is rejected
\* by /game/place-bet and by /game/spin before anything is drawn or written:
\* the request carrying it ends at once with status 400, and no such wager is
\* ever a row of the wager table.
C12_MalformedWagerRejected ==
    /\ \A r \in Requests :
          (/\ req[r].kind = "place_bet"
           /\ ~StructuralRule(req[r].bet_type, req[r].numbers))
          => (req[r].pc = "done" /\ req[r].status = 400)
    /\ \A r \in Requests : \A k \in DOMAIN req[r].frontend_bets :
          ~StructuralRule(req[r].frontend_bets[k].betType, req[r].frontend_bets[k].numbers)
          => (req[r].pc = "done" /\ req[r].status = 400)
    /\ \A k \in DOMAIN bets : StructuralRule(bets[k].bet_type, bets[k].numbers)

\* C13: every wager that /game/spin grades (a wager of a batch past the
\* empty-batch check) and every wager row that is persisted has a stake above
\* 0 and at most the per-wager maximum.
C13_StakeWithinBounds ==
    /\ \A r \in Requests : \A k \in DOMAIN req[r].frontend_bets :
          /\ req[r].frontend_bets[k].amount > 0
          /\ req[r].frontend_bets[k].amount <= MaxBetAmount
    /\ \A k \in DOMAIN bets :
          bets[k].amount > 0 /\ bets[k].amount <= MaxBetAmount

\* C14: the winning number a /game/spin request grades with is in 0..36, and
\* so is every winning number a spin request has computed, drawn or supplied.
C14_WinningNumberInRange ==
    \A r \in Requests :
        req[r].kind = "spin" => req[r].winning_number \in 0..36

---------------------------------------------------------------------------
(* Properties of the graders *)

Graders == {"spin", "game_engine", "roulette_engine"}

\* grader g has graded the wager: /game/spin and GameEngine.calculate_payouts
\* grade what they are given, RouletteEngine what place_bet accepted
Graded(g) ==
    /\ grading[g] # Null
    /\ g = "roulette_engine" => grading[g][1].placed

IsWinner(g) == grading[g][1].is_winner

Paid(g) == grading[g][1].paid

\* C15: with winning number 0, no grader grades a red, black, even, odd, low,
\* high, dozen or column wager a winner.
C15_ZeroWinsNoOutsideWager ==
    (/\ grading.winning_number = 0
     /\ grading.bet.bet_type \in {"red", "black", "even", "odd", "low", "high",
                                   "dozen", "column"})
    => \A g \in Graders : Graded(g) => ~IsWinner(g)

\* the dozen and the column of a winning number, 0 for zero
OutcomeDozen(w) ==
    IF w = 0 THEN 0 ELSE CHOOSE d \in 1..3 : 12 * (d - 1) < w /\ w <= 12 * d

OutcomeColumn(w) ==
    IF w = 0 THEN 0 ELSE CHOOSE c \in 1..3 : (w - c) % 3 = 0

\* C16: every grader grades a dozen wager a winner exactly when the wager has
\* a single selector and it is the dozen of the winning number, and a column
\* wager exactly when its single selector is the column of the winning number.
C16_DozenColumnBySingleSelector ==
    \A g \in Graders :
        Graded(g) =>
            /\ grading.bet.bet_type = "dozen" =>
                  (IsWinner(g) <=> /\ Len(grading.bet.numbers) = 1
                                   /\ grading.bet.numbers[1] = OutcomeDozen(grading.winning_number))
            /\ grading.bet.bet_type = "column" =>
                  (IsWinner(g) <=> /\ Len(grading.bet.numbers) = 1
                                   /\ grading.bet.numbers[1] = OutcomeColumn(grading.winning_number))

\* C17: for every winning number in 0..36, /game/spin grades an inside wager a
\* winner exactly when the number is among its numbers, red exactly on a red
\* number, black exactly on a number of 1..36 that is not red, even exactly on
\* a non-zero even number, odd exactly on an odd number, low exactly on 1..18
\* and high exactly on 19..36.
C17_SpinGradingRules ==
    (grading.spin # Null /\ grading.winning_number \in 0..36) =>
        LET w == grading.winning_number
            bt == grading.bet.bet_type
            won == IsWinner("spin")
        IN  /\ bt \in {"straight", "split", "street", "corner", "line"} =>
                  (won <=> \E k \in DOMAIN grading.bet.numbers : grading.bet.numbers[k] = w)
            /\ bt = "red"   => (won <=> w \in red_numbers)
            /\ bt = "black" => (won <=> w \in (1..36) \ red_numbers)
            /\ bt = "even"  => (won <=> w # 0 /\ w % 2 = 0)
            /\ bt = "odd"   => (won <=> w % 2 = 1)
            /\ bt = "low"   => (won <=> w \in 1..18)
            /\ bt = "high"  => (won <=> w \in 19..36)

\* C17, reached: /game/spin graded a high wager on 19 a winner and a low wager
\* on 0 a loser
C17_Witness ==
    /\ grading.spin # Null
    /\ \/ grading.bet.bet_type = "high" /\ grading.winning_number = 19 /\ IsWinner("spin")
       \/ grading.bet.bet_type = "low" /\ grading.winning_number = 0 /\ ~IsWinner("spin")

\* C18: a wager whose category is not one of the 13 known kinds is graded a
\* loser by every grader and adds nothing to what its batch is paid.
C18_UnknownCategoryNeverWins ==
    grading.bet.bet_type \notin BetType =>
        \A g \in Graders :
            grading[g] # Null => (~IsWinner(g) /\ Paid(g) = 0)

\* C18, reached: the three graders have graded a wager of category "joker"
\* that selects the winning number
C18_Witness ==
    /\ grading.bet.bet_type = "joker"
    /\ grading.bet.numbers = <<7>>
    /\ grading.winning_number = 7
    /\ \A g \in Graders : grading[g] # Null /\ ~IsWinner(g)

\* C19: in every payout computation a graded wager of a known category is
\* paid stake + stake * odds of its category when it wins, and 0 when it loses.
C19_PayoutIsStakePlusWinnings ==
    \A g \in Graders :
        (Graded(g) /\ grading.bet.bet_type \in BetType) =>
            Paid(g) = IF IsWinner(g)
                      THEN grading.bet.amount
                           + grading.bet.amount * payout_multipliers[grading.bet.bet_type]
                      ELSE 0

---------------------------------------------------------------------------
(* Properties of a settlement *)

\* the batch of the worked example: $10 on red and $5 straight on 7
ExampleBatch ==
    <<[betType |-> "red", amount |-> 10, numbers |-> <<>>],
      [betType |-> "straight", amount |-> 5, numbers |-> <<7>>]>>

\* C20: once a /game/spin request that runs alone has written the player row,
\* its total staked is the sum of the stakes of its batch, its total paid out
\* is the sum over the winning wagers of stake + stake * odds, its net result
\* is total paid out - total staked, and the stored balance is the balance the
\* settlement started from plus the net result; starting from 100 with $10 on
\* red and $5 straight on 7 and winning number 7 these are 15, 200, +185 and 285.
C20_SettlementArithmetic ==
    \A r \in Requests :
        (SpinWrote(r) /\ Alone(r)) =>
            LET fb == req[r].frontend_bets
                w == req[r].winning_number
            IN  /\ req[r].total_wagered = SumSeq([k \in DOMAIN fb |-> fb[k].amount])
                /\ req[r].total_won =
                      SumSeq([k \in DOMAIN fb |->
                                 IF spin_is_winner(fb[k].betType, fb[k].numbers, w)
                                 THEN fb[k].amount + fb[k].amount * get_payout_odds(fb[k].betType)
                                 ELSE 0])
                /\ req[r].net_result = req[r].total_won - req[r].total_wagered
                /\ players.balance = req[r].initial_balance + req[r].net_result
                /\ (fb = ExampleBatch /\ w = 7 /\ req[r].initial_balance = 100) =>
                      /\ req[r].total_wagered = 15
                      /\ req[r].total_won = 200
                      /\ req[r].net_result = 185
                      /\ players.balance = 285

\* C20, reached: the worked example has been settled from the stored balance
\* 100 and the player row holds 285
C20_Witness ==
    \E r \in Requests :
        /\ SpinWrote(r) /\ Alone(r)
        /\ req[r].frontend_bets = ExampleBatch
        /\ req[r].winning_number = 7
        /\ req[r].initial_balance = 100
        /\ req[r].current_user_balance = 100
        /\ players.balance = 285

---------------------------------------------------------------------------
(* Properties of the cumulative statistics *)

\* C21: after /game/spin requests that all answered 200, in any interleaving,
\* games_played has grown by their number, total_wagered by the sum of their
\* total stakes and total_winnings by the sum of their net results.
C21_SpinStatsNotLost ==
    (\A r \in Requests :
        \/ req[r].pc = "idle"
        \/ req[r].kind = "spin" /\ req[r].pc = "done" /\ req[r].status = 200)
    => /\ players.games_played = Cardinality({r \in Requests : req[r].pc = "done"})
       /\ players.total_wagered =
             SumSeq([r \in Requests |-> IF req[r].pc = "done" THEN req[r].total_wagered ELSE 0])
       /\ players.total_winnings =
             SumSeq([r \in Requests |-> IF req[r].pc = "done" THEN req[r].net_result ELSE 0])

---------------------------------------------------------------------------
(* Properties of the empty batch *)

\* the spin request r was called with an empty wager list
EmptySpin(r) == req[r].kind = "spin" /\ req[r].frontend_bets = <<>>

\* a spin request with an empty wager list has answered 400
C22_EmptySpinRejected ==
    \A r \in Requests : EmptySpin(r) => (req[r].pc = "done" /\ req[r].status = 400)

\* the step in which a spin request with an empty wager list arrives: it
\* answers 400 having computed nothing but the current user, and the player
\* row, the wager rows and the rounds are as before
C22_EmptySpinStep ==
    \A r \in Requests :
        (req[r].pc = "idle" /\ req'[r].kind = "spin" /\ req'[r].frontend_bets = <<>>)
        => /\ req'[r] = [IdleRequest EXCEPT !.pc = "done", !.kind = "spin", !.status = 400,
                                            !.current_user_balance = players.balance,
                                            !.request_attributes = req'[r].request_attributes]
           /\ players' = players
           /\ bets' = bets
           /\ game_rounds' = game_rounds

\* C22: /game/spin called with an empty wager list answers 400 in the step it
\* arrives in, before anything is drawn or computed, and that step and the
\* request afterwards leave the player row (balance and cumulative stats), the
\* rounds and the wager rows unchanged.
C22_EmptySpinChangesNothing == []C22_EmptySpinRejected /\ [][C22_EmptySpinStep]_vars

\* C22, reached: a spin request with an empty wager list has been rejected
\* over a table holding a betting round, the player row as it was
C22_Witness ==
    \E r \in Requests :
        /\ EmptySpin(r) /\ req[r].pc = "done" /\ req[r].status = 400
        /\ game_rounds = <<NewRound(1)>>
        /\ players = [ZeroStats EXCEPT !.balance = InitialBalance]
        /\ bets = <<>>

---------------------------------------------------------------------------
(* Properties of the outcome *)

\* the spin requests r1 and r2 were sent with the same wagers, winning number
\* and balance, and read the same player row on arrival
SameSpin(r1, r2) ==
    /\ req[r1].kind = "spin" /\ req[r1].frontend_bets # <<>>
    /\ req[r2].kind = "spin" /\ req[r2].frontend_bets # <<>>
    /\ req[r1].frontend_bets = req[r2].frontend_bets
    /\ req[r1].winning_number = req[r2].winning_number
    /\ req[r1].initial_balance = req[r2].initial_balance
    /\ req[r1].current_user_balance = req[r2].current_user_balance

\* C23: two /game/spin requests with the same wagers, winning number and
\* balance grade and answer with the same color, parity, half, dozen and
\* column, the same payouts and net result and the same new balance, whatever
\* description of the outcome their bodies carry; and once both have written
\* the player row, no other request being in flight, the stored balance is
\* that new balance.
C23_OutcomeFromNumberAlone ==
    \A r1, r2 \in Requests :
        SameSpin(r1, r2) =>
            /\ req[r1].color = req[r2].color
            /\ req[r1].is_even = req[r2].is_even
            /\ req[r1].is_low = req[r2].is_low
            /\ req[r1].dozen = req[r2].dozen
            /\ req[r1].column = req[r2].column
            /\ req[r1].payouts = req[r2].payouts
            /\ req[r1].winning_bets = req[r2].winning_bets
            /\ req[r1].net_result = req[r2].net_result
            /\ req[r1].new_balance = req[r2].new_balance
            /\ (/\ r1 # r2
                /\ SpinWrote(r1) /\ SpinWrote(r2)
                /\ \A o \in Requests \ {r1, r2} : req[o].pc = "idle")
               => players.balance = req[r1].new_balance

\* C23, reached: two such requests on winning number 0, one of them claiming
\* a red, even, low outcome, have both written the player row and both
\* answer green
C23_Witness ==
    \E r1, r2 \in Requests :
        /\ r1 # r2
        /\ SameSpin(r1, r2)
        /\ req[r1].request_attributes = Null
        /\ req[r2].request_attributes # Null
        /\ req[r1].winning_number = 0
        /\ SpinWrote(r1) /\ SpinWrote(r2)
        /\ req[r2].color = "green"

Classifiers == {"spin", "get_winning_number", "game_engine", "roulette_engine"}

\* the attributes of a number of the wheel, by the rules of the game
ReferenceOutcome(n) ==
    [winning_number |-> n,
     color |-> IF n = 0 THEN "green"
               ELSE IF n \in {1, 3, 5, 7, 9, 12, 14, 16, 18,
                              19, 21, 23, 25, 27, 30, 32, 34, 36} THEN "red"
               ELSE "black",
     is_even |-> n # 0 /\ n % 2 = 0,
     is_low |-> 1 <= n /\ n <= 18,
     dozen |-> IF n = 0 THEN 0 ELSE ((n - 1) \div 12) + 1,
     column |-> IF n = 0 THEN 0 ELSE ((n - 1) % 3) + 1]

ReferenceOdds ==
    [bt \in {"straight", "split", "street", "corner", "line", "dozen", "column",
              "red", "black", "even", "odd", "low", "high"} |->
        CASE bt = "straight" -> 35
          [] bt = "split"    -> 17
          [] bt = "street"   -> 11
          [] bt = "corner"   -> 8
          [] bt = "line"     -> 5
          [] bt = "dozen"    -> 2
          [] bt = "column"   -> 2
          [] OTHER           -> 1]

\* C25: the odds tables of /game/place-bet and /game/spin, of GameEngine and
\* of RouletteEngine are the reference table (35, 17, 11, 8, 5, 2, 2 and 1
\* for the six even-money categories), and every wager record written by
\* /game/place-bet or /game/spin carries potential winnings of stake x odds of
\* its category, as GameEngine and RouletteEngine compute them too.
C25_OddsAndPotentialWinnings ==
    /\ payout_multipliers = ReferenceOdds
    /\ GameEngine_payouts = ReferenceOdds
    /\ RouletteEngine_payout_multipliers = ReferenceOdds
    /\ \A bt \in DOMAIN ReferenceOdds : get_payout_odds(bt) = ReferenceOdds[bt]
    /\ \A k \in DOMAIN bets :
          LET bet == bets[k]
              winnings == bet.amount * ReferenceOdds[bet.bet_type]
              placed == RouletteEngine_place_bet(<<>>,
                            [bet_type |-> bet.bet_type, numbers |-> bet.numbers,
                             amount |-> bet.amount, potential_payout |-> 0])
          IN  bet.bet_type \in DOMAIN ReferenceOdds =>
                /\ bet.potential_payout = winnings
                /\ bet.payout_odds = ReferenceOdds[bet.bet_type]
                /\ GameEngine_calculate_potential_payout(bet.bet_type, bet.amount) = winnings
                /\ placed # <<>> => placed[1].potential_payout = winnings

\* C25, reached: a corner wager of 10 was recorded by /game/spin with
\* potential winnings 80
C25_Witness ==
    \E k \in DOMAIN bets :
        /\ bets[k].bet_type = "corner" /\ bets[k].amount = 10
        /\ bets[k].is_winner # Null
        /\ bets[k].potential_payout = 80

Validators == {"game_engine", "roulette_engine", "backup_parser"}

\* the set of the numbers of a wager
NumberSet(numbers) == {numbers[i] : i \in DOMAIN numbers}

\* the row of the 3-wide, 12-row grid a number of 1..36 lies in
GridRow(n) == ((n - 1) \div 3) + 1

\* two numbers of [0,36] that are neighbours on the grid
ReferenceSplit(numbers) ==
    /\ Len(numbers) = 2
    /\ NumberSet(numbers) \subseteq 0..36
    /\ LET a == numbers[1]
           b == numbers[2]
       IN  \/ a = 0 /\ b \in {1, 2, 3}
           \/ b = 0 /\ a \in {1, 2, 3}
           \/ a >= 1 /\ b >= 1 /\ Abs(a - b) = 1 /\ GridRow(a) = GridRow(b)
           \/ a >= 1 /\ b >= 1 /\ Abs(a - b) = 3

\* C26: a validator that has judged a split wager accepted it exactly when
\* its 2 numbers lie in [0,36] and are neighbours on the grid: side by side in
\* one row, one above the other (3 apart), or 0 with one of 1, 2, 3.
C26_SplitAcceptedIffAdjacent ==
    \A v \in Validators :
        (grading.bet_type = "split" /\ grading[v] # Null) =>
            (grading[v][1].accepted <=> ReferenceSplit(grading[v][1].numbers))

\* the three numbers of one row of the grid
ReferenceStreet(numbers) ==
    /\ Len(numbers) = 3
    /\ \E r \in 1..12 : NumberSet(numbers) = {3 * r - 2, 3 * r - 1, 3 * r}

\* C27: a validator that has judged a street wager accepted it exactly when
\* its 3 numbers are the three numbers of one row of the grid.
C27_StreetAcceptedIffRow ==
    \A v \in Validators :
        (grading.bet_type = "street" /\ grading[v] # Null) =>
            (grading[v][1].accepted <=> ReferenceStreet(grading[v][1].numbers))

\* a 2 x 2 block of the grid
ReferenceCorner(numbers) ==
    /\ Len(numbers) = 4
    /\ \E n \in 1..32 :
         /\ GridRow(n) = GridRow(n + 1)
         /\ NumberSet(numbers) = {n, n + 1, n + 3, n + 4}

\* C28: a validator that has judged a corner wager accepted it exactly when
\* its 4 numbers are a 2 x 2 block of the grid.
C28_CornerAcceptedIffBlock ==
    \A v \in Validators :
        (grading.bet_type = "corner" /\ grading[v] # Null) =>
            (grading[v][1].accepted <=> ReferenceCorner(grading[v][1].numbers))

\* the six numbers of two adjacent rows of the grid
ReferenceLine(numbers) ==
    /\ Len(numbers) = 6
    /\ \E r \in 1..11 : NumberSet(numbers) = (3 * r - 2)..(3 * r + 3)

\* C29: a validator that has judged a line wager accepted it exactly when its
\* 6 numbers are the numbers of two adjacent rows of the grid.
C29_LineAcceptedIffTwoRows ==
    \A v \in Validators :
        (grading.bet_type = "line" /\ grading[v] # Null) =>
            (grading[v][1].accepted <=> ReferenceLine(grading[v][1].numbers))

\* the rows of the wager table whose grading is set, and the winners among them
GradedRows == {k \in DOMAIN bets : bets[k].is_winner # Null}

WinningRows == {k \in GradedRows : bets[k].is_winner = Some(TRUE)}

\* h hundredths of a percent is winners / graded x 100 to the nearest
\* hundredth, and 0 when nothing is graded
IsWinRate(h) ==
    LET graded == Cardinality(GradedRows)
        winners == Cardinality(WinningRows)
    IN  IF graded = 0 THEN h = 0
        ELSE 2 * Abs(h * graded - 10000 * winners) <= graded

\* the step in which /game/spin or /player/stats computes the win-rate
C30_WinRateStep ==
    \A r \in Requests :
        /\ (req[r].pc = "sp_win_rate" /\ req'[r].pc # "sp_win_rate") =>
              /\ req'[r].status = 200
              /\ IsWinRate(req'[r].win_rate)
        /\ (req[r].pc = "st_read_bets" /\ req'[r].pc # "st_read_bets") =>
              /\ req'[r].status = 200
              /\ req'[r].stats # Null
              /\ IsWinRate(req'[r].stats[1].win_rate)
              /\ req'[r].stats[1].totalBets = Cardinality(GradedRows)

\* C30: the step in which /game/spin or /player/stats computes the win-rate
\* answers 200 with the win-rate of the wager records whose grading is set at
\* that moment: 0 when there is none, else winners / graded x 100 to two
\* decimals, records placed by /game/place-bet and not graded being left out.
C30_WinRateOverGradedWagers == [][C30_WinRateStep]_vars

\* C30, reached: /game/spin answered a win-rate of 50.00 over its two graded
\* wagers while a record placed by /game/place-bet lies ungraded in the table
C30_Witness ==
    \E r \in Requests :
        /\ req[r].kind = "spin" /\ req[r].pc = "done" /\ req[r].status = 200
        /\ req[r].win_rate = 5000
        /\ req[r].total_processed_bets = 2
        /\ \E k \in DOMAIN bets : bets[k].is_winner = Null

\* C31: a DatabaseService call one of whose storage writes failed has not
\* returned normally: the failure left the method as an exception.  So an
\* update_balances whose balance update was written and whose payout record
\* was not is never a normal return.
C31_FailedWriteReported ==
    (db.call # Null /\ db.call[1].pc = "returned" /\ db.call[1].failed_write)
        => db.call[1].raised

\* the total payouts of the rows that are winners, in the order of the rows
RECURSIVE WinnersPaid(_)
WinnersPaid(rows) ==
    IF rows = <<>> THEN <<>>
    ELSE IF Head(rows).is_winner = Some(TRUE)
         THEN <<Head(rows).actual_payout[1]>> \o WinnersPaid(Tail(rows))
         ELSE WinnersPaid(Tail(rows))

\* C32: when a /game/spin request running alone has answered 200, the wager
\* records it stored are its batch in order; the winners among them carry, in
\* order, the payouts of the aggregation pass and the others carry 0; the
\* stored payouts sum to the returned total_won and the stored winners are as
\* many as the returned winning_bets.
C32_PersistAgreesWithAggregation ==
    (req[1].kind = "spin" /\ req[1].pc = "done" /\ req[1].status = 200) =>
        /\ Len(bets) = Len(req[1].frontend_bets)
        /\ \A k \in DOMAIN bets :
              /\ bets[k].is_winner # Null
              /\ bets[k].bet_type = req[1].frontend_bets[k].betType
              /\ bets[k].is_winner = Some(FALSE) => bets[k].actual_payout = Some(0)
        /\ WinnersPaid(bets) = req[1].payouts
        /\ SumSeq(WinnersPaid(bets)) = req[1].total_won
        /\ SumSeq([k \in DOMAIN bets |-> bets[k].actual_payout[1]]) = req[1].total_won
        /\ Len(WinnersPaid(bets)) = req[1].winning_bets

\* C32, reached: a batch of a losing and a winning wager was settled on 7: the
\* second record is the winner and carries the one payout of the aggregation
C32_Witness ==
    /\ req[1].kind = "spin" /\ req[1].pc = "done" /\ req[1].status = 200
    /\ req[1].winning_number = 7
    /\ Len(bets) = 2
    /\ bets[1].is_winner = Some(FALSE) /\ bets[1].actual_payout = Some(0)
    /\ bets[2].is_winner = Some(TRUE) /\ bets[2].bet_type = "straight"
    /\ bets[2].actual_payout = Some(180)
    /\ req[1].payouts = <<180>> /\ req[1].winning_bets = 1

\* C33: every bet RouletteEngine.calculate_payouts has graded was placed
\* before the spin result it was graded against was drawn, and carries the
\* round_id of that spin result.
C33_GradedAgainstOwnRoundSpin ==
    \A k \in DOMAIN engine.graded :
        LET g == engine.graded[k]
        IN  /\ g.bet.placed_at < g.spin_result.spun_at
            /\ g.bet.round_id = g.spin_result.round_id

\* request r2 is a /game/spin without a "balance" field that settled, as its
\* whole batch, the wager request r1 had staked through /game/place-bet
SettlesPlacedWager(r1, r2) ==
    /\ r1 # r2
    /\ req[r1].kind = "place_bet" /\ req[r1].pc = "done" /\ req[r1].status = 200
    /\ req[r2].kind = "spin" /\ req[r2].pc = "done" /\ req[r2].status = 200
    /\ req[r2].initial_balance = req[r1].new_balance
    /\ req[r2].current_user_balance = req[r1].new_balance
    /\ req[r2].frontend_bets = <<[betType |-> req[r1].bet_type,
                                  amount |-> req[r1].amount,
                                  numbers |-> req[r1].numbers]>>

\* C34: when a wager staked through /game/place-bet has been settled through
\* /game/spin without a "balance" field, the stored balance is the balance
\* before place-bet minus the stake plus the wager's total payout.
C34_StakeChargedOnce ==
    \A r1, r2 \in Requests :
        SettlesPlacedWager(r1, r2) =>
            players.balance =
                req[r1].latest_balance - req[r1].amount + req[r2].total_won

\* C35: the stored balance of the player is never negative.
C35_BalanceNeverNegative == players.balance >= 0

\* the restoring write of request r's /game/place-bet, taken when the stored
\* balance is no longer the one r's deduction wrote: another request has
\* committed a balance change since
RestoresOverChange(r) ==
    /\ req[r].pc = "pb_rollback" /\ req'[r].pc = "done"
    /\ players.balance # req[r].new_balance

C36_RestoreStep ==
    \A r \in Requests :
        RestoresOverChange(r) =>
            /\ players'.balance = players.balance + req[r].amount
            /\ players'.balance # req[r].latest_balance

\* C36: when /game/place-bet restores the balance after a failed insert and
\* another request has changed the stored balance since the deduction, the
\* restore gives back the stake on top of that change; it does not write the
\* balance read before the deduction over it.
C36_RestoreKeepsOtherChange == [][C36_RestoreStep]_vars

\* every request sent so far is a /game/spin answered 200 or a /player/stats
\* answered 200, and none is running
OnlySuccessfulSpins ==
    \A r \in Requests :
        \/ req[r].pc = "idle"
        \/ /\ req[r].pc = "done" /\ req[r].status = 200
           /\ req[r].kind \in {"spin", "stats"}

\* sum of stakes, and of actual_payout - stake, over the graded rows of bets
GradedStakes ==
    SumSeq([k \in DOMAIN ProcessedBets(bets) |-> ProcessedBets(bets)[k].amount])

GradedNet ==
    SumSeq([k \in DOMAIN ProcessedBets(bets) |->
               ProcessedBets(bets)[k].actual_payout[1] - ProcessedBets(bets)[k].amount])

\* C37: after /game/spin calls made one after the other and all answered 200,
\* from a fresh player, stored total_wagered is the sum of stakes of the graded
\* rows of bets and stored total_winnings the sum of actual_payout - stake over
\* them; a /player/stats answered after the last of them reports those two
\* numbers as totalWagered and totalWon.
C37_LedgerAgreesWithWagers ==
    OnlySuccessfulSpins =>
        /\ players.total_wagered = GradedStakes
        /\ players.total_winnings = GradedNet
        /\ \A r \in Requests :
              (/\ req[r].kind = "stats" /\ req[r].pc = "done"
               /\ req[r].stats[1].games_played = players.games_played) =>
                  /\ req[r].stats[1].totalWagered = players.total_wagered
                  /\ req[r].stats[1].totalWon = players.total_winnings

\* two spins answered 200, the second with a winning straight wager
C37_Witness ==
    /\ OnlySuccessfulSpins
    /\ \A r \in Requests : req[r].kind = "spin"
    /\ players.games_played = 2
    /\ players.total_winnings = 160
    /\ Len(bets) = 3

\* C38: for a structurally valid wager of one of the 13 categories and a
\* winning number in 0..36, the grading of /game/spin,
\* GameEngine._is_winning_bet and RouletteEngine._is_winning_bet give the same
\* win/lose decision.
C38_GradersAgree ==
    (/\ grading.bet.bet_type \in BetType
     /\ StructuralRule(grading.bet.bet_type, grading.bet.numbers)
     /\ grading.winning_number \in 0..36)
    => \A g1, g2 \in Graders :
          (grading[g1] # Null /\ grading[g2] # Null) => IsWinner(g1) = IsWinner(g2)

\* the three have graded a high wager on 0 losers, or a dozen wager on the
\* second dozen winners on 13
C38_Witness ==
    /\ \A g \in Graders : grading[g] # Null
    /\ \/ /\ grading.bet.bet_type = "high" /\ grading.winning_number = 0
          /\ \A g \in Graders : ~IsWinner(g)
       \/ /\ grading.bet.bet_type = "dozen" /\ grading.bet.numbers = <<2>>
          /\ grading.winning_number = 13
          /\ \A g \in Graders : IsWinner(g)

\* the set of the elements of a list
Elements(list) == {list[k] : k \in DOMAIN list}

\* no element is in the list twice
EachOnce(list) == Cardinality(Elements(list)) = Len(list)

\* C39: active_connections holds exactly the sockets that are values of
\* client_connections, each once, and player_sessions and the default room
\* hold exactly the keys of client_connections, each once.
C39_ManagerCollectionsAgree ==
    LET connections == manager.client_connections
    IN  /\ Elements(manager.active_connections) =
              {connections[c] : c \in DOMAIN connections}
        /\ EachOnce(manager.active_connections)
        /\ manager.player_sessions = DOMAIN connections
        /\ Elements(manager.game_rooms.default) = DOMAIN connections
        /\ EachOnce(manager.game_rooms.default)

\* C40: a broadcast that has returned has sent the message to every client
\* that was connected in the room from its beginning to its end.
C40_BroadcastReachesAllWhoStay ==
    (manager.broadcast # Null /\ manager.broadcast[1].pc = "returned") =>
        manager.broadcast[1].stayed \subseteq manager.broadcast[1].attempted

=============================================================================
